---- MODULE Spec2Model ----
(***************************************************************************)
(* Model of the auto-trading bot (src/tradingBot/autoTrading_Bot.py):      *)
(* the trade ledger, the condition evaluator, the position sizer and the   *)
(* per-invocation trading cycle of AutoTradingBot.                         *)
(*                                                                         *)
(* Numbers are integers; an amount of money that the code computes by a    *)
(* float division is kept as an exact fraction [n, d] with d > 0.          *)
(* An optional value (Python None or a value) is <<>> or <<v>>.            *)
(* A Python string that the code parses is a sequence of characters.       *)
(***************************************************************************)
EXTENDS Integers, Sequences, FiniteSets, TLC

VARIABLES
    config_file,      \* trading_configs.json: the list of all configs
    trading_configs,  \* self.trading_configs: the active configs, in list order
    trade_history,    \* self.trade_history: stock_code -> ledger record
    history_file,     \* trade_history_<mode>.json: the persisted ledger
    holdings,         \* the brokerage account: stock_code -> [StockAmt, cost]
    pc,               \* position of the invocation: "ready", "loop", "done"
    idx,              \* index of the next config of the for-loop
    clock,            \* Seoul time read by is_market_open: [weekday, time]
    balance,          \* KisKR.GetBalance() as read at the start of the cycle
    evaluated,        \* indices of the configs whose loop body ran this cycle
    events,           \* what the last step did, in order
    other,            \* the invocations of the overlap specification, by name
    probe,            \* the last direct call of a function or endpoint
    stocks_file,      \* stocks.json: the list of all stocks
    quote             \* the price the feed quoted last, where a run follows it

vars == <<config_file, trading_configs, trade_history, history_file,
          holdings, pc, idx, clock, balance, evaluated, events, other, probe,
          stocks_file, quote>>

(***************************************************************************)
(* Values of the environment.                                              *)
(***************************************************************************)
None == <<>>
Some(v) == <<v>>
IsNone(o) == o = <<>>
Val(o) == o[1]

\* prices the price feed can quote: 90, 100, ... in steps of 10
MaxTick == 2
Prices == {90 + 10 * k : k \in 0..MaxTick}
\* KisKR.GetCurrentPrice: a quote, or nothing (float(None) raises)
PriceFeed == {None} \cup {Some(p) : p \in Prices}

\* KisKR.GetBalance(): nothing, or the account equity in "TotalMoney"
Balances == {None, Some(0), Some(1000)}

\* get_atr: the 14-period ATR, or None when it is unavailable
AtrFeed == {None, Some(10)}

\* answers of the Order Gateway to a market order
OrderResults == {"ok", "rejected", "raised"}

\* Seoul wall-clock samples: weekday (0 = Monday) and HHMM
Weekdays == {4, 5}
Times == {859, 900, 1530, 1531}

(***************************************************************************)
(* Exact fractions for float amounts.                                      *)
(***************************************************************************)
Frac(n, d) == IF d < 0 THEN [n |-> 0 - n, d |-> 0 - d] ELSE [n |-> n, d |-> d]
FracOfInt(k) == [n |-> k, d |-> 1]
FracZero == FracOfInt(0)
FracPos(f) == f.n > 0
FracEq(f, g) == f.n * g.d = g.n * f.d
FracLe(f, g) == f.n * g.d <= g.n * f.d
\* int(f / k) for f >= 0 and k > 0: truncation of the float quotient
FracFloorDiv(f, k) == f.n \div (f.d * k)

RECURSIVE SumSeq(_)
SumSeq(s) == IF s = <<>> THEN 0 ELSE Head(s) + SumSeq(Tail(s))

Min(a, b) == IF a <= b THEN a ELSE b

(***************************************************************************)
(* Strings of pyramiding_entries: str.strip, str.startswith, float().      *)
(***************************************************************************)
Digits == <<"0", "1", "2", "3", "4", "5", "6", "7", "8", "9">>
IsDigit(c) == \E i \in 1..10 : Digits[i] = c
DigitVal(c) == (CHOOSE i \in 1..10 : Digits[i] = c) - 1
IsSpace(c) == c = " "

RECURSIVE LStrip(_)
LStrip(s) == IF s # <<>> /\ IsSpace(Head(s)) THEN LStrip(Tail(s)) ELSE s
RECURSIVE RStrip(_)
RStrip(s) ==
    IF s # <<>> /\ IsSpace(s[Len(s)]) THEN RStrip(SubSeq(s, 1, Len(s) - 1)) ELSE s
Strip(s) == RStrip(LStrip(s))

RECURSIVE DigitsValue(_)
DigitsValue(s) ==
    IF s = <<>> THEN 0
    ELSE DigitsValue(SubSeq(s, 1, Len(s) - 1)) * 10 + DigitVal(s[Len(s)])
AllDigits(s) == s # <<>> /\ \A i \in 1..Len(s) : IsDigit(s[i])

\* float(s): None stands for ValueError.  Surrounding blanks are ignored, one
\* sign is accepted, the rest must be decimal digits.
ParseFloat(str) ==
    LET s == Strip(str)
        signed == s # <<>> /\ Head(s) \in {"+", "-"}
        body == IF signed THEN Tail(s) ELSE s
    IN  IF ~AllDigits(body) THEN None
        ELSE IF signed /\ Head(s) = "-" THEN Some(0 - DigitsValue(body))
        ELSE Some(DigitsValue(body))

(***************************************************************************)
(* TradingConfig records of trading_configs.json.  stock_name is optional: *)
(* the file is plain JSON and the loop body reads config["stock_name"].    *)
(***************************************************************************)
StrPlus5 == <<"+", "5">>
StrOne == <<"1">>
StrBlank == <<" ">>
StrBad == <<"x">>

ManualConfig(code, entries, positions, count) ==
    [stock_code |-> code, stock_name |-> Some("name"), trading_mode |-> "manual",
     max_loss |-> 2, stop_loss |-> 5, take_profit |-> 10,
     pyramiding_count |-> count, entry_point |-> 100,
     pyramiding_entries |-> entries, positions |-> positions, is_active |-> TRUE]

TurtleConfig(code, entries, positions, count) ==
    [stock_code |-> code, stock_name |-> Some("name"), trading_mode |-> "turtle",
     max_loss |-> 1, stop_loss |-> 1, take_profit |-> 2,
     pyramiding_count |-> count, entry_point |-> 100,
     pyramiding_entries |-> entries, positions |-> positions, is_active |-> TRUE]

Unnamed(c) == [c EXCEPT !.stock_name = None]
Inactive(c) == [c EXCEPT !.is_active = FALSE]
\* a config whose JSON object has no "is_active" key
Unflagged(c) == [f \in DOMAIN c \ {"is_active"} |-> c[f]]

\* the contents trading_configs.json can have: one config per instrument
ConfigFiles ==
    { <<ManualConfig("005930", <<StrPlus5, StrPlus5>>, <<50, 50>>, 1),
        TurtleConfig("000660", <<>>, <<>>, 0)>>,
      <<Unnamed(ManualConfig("005930", <<StrPlus5, StrPlus5>>, <<50, 50>>, 1)),
        ManualConfig("000660", <<StrPlus5>>, <<50, 50>>, 1)>>,
      <<Inactive(ManualConfig("005930", <<>>, <<>>, 0)),
        Unflagged(TurtleConfig("005930", <<>>, <<>>, 0)),
        TurtleConfig("000660", <<StrOne, StrOne>>, <<50, 50>>, 1)>> }

Stocks == {"005930", "000660"}

load_configs_default_active(all_configs) ==
    SelectSeq(all_configs,
              LAMBDA config : IF "is_active" \in DOMAIN config
                              THEN config.is_active ELSE TRUE)

\* load_configs: keep the configs whose is_active is true, in file order;
\* config.get("is_active", False) drops a config without the key
load_configs(all_configs) ==
    SelectSeq(all_configs,
              LAMBDA config : IF "is_active" \in DOMAIN config
                              THEN config.is_active ELSE FALSE)

(***************************************************************************)
(* Trade Ledger: self.trade_history and its JSON file.                     *)
(***************************************************************************)
\* json.dump of the whole dict / json.load of the whole file
save_trade_history_truncate(th) == << >>
save_trade_history(th) == th
load_trade_history_fresh(file) == << >>
load_trade_history(file) == file

EntryLabel(current_entry_count) ==
    IF current_entry_count = 0 THEN [kind |-> "initial", n |-> 0]
    ELSE [kind |-> "pyramiding", n |-> current_entry_count]

RECURSIVE SumAmount(_)
SumAmount(entries) ==
    IF entries = <<>> THEN 0
    ELSE Head(entries).price * Head(entries).quantity + SumAmount(Tail(entries))
RECURSIVE SumQuantity(_)
SumQuantity(entries) ==
    IF entries = <<>> THEN 0
    ELSE Head(entries).quantity + SumQuantity(Tail(entries))

EmptyRecord ==
    [entries |-> <<>>, avg_price |-> FracZero, total_quantity |-> 0, entry_count |-> 0]

Recompute_last(entries) ==
    [entries |-> entries,
     avg_price |-> FracOfInt(entries[Len(entries)].price),
     total_quantity |-> SumQuantity(entries),
     entry_count |-> Len(entries)]

\* the derived fields of a ledger record, recomputed from its entries
Recompute(entries) ==
    LET total_amount == SumAmount(entries)
        total_quantity == SumQuantity(entries)
    IN  [entries |-> entries,
         avg_price |-> IF total_quantity > 0 THEN Frac(total_amount, total_quantity)
                       ELSE FracZero,
         total_quantity |-> total_quantity,
         entry_count |-> Len(entries)]

\* The bot's mutable state as the operations below thread it:
\* [trade_history, history_file, holdings, events].
Emit(st, e) == [st EXCEPT !.events = Append(@, e)]
Event(name, quantity, result) == [ev |-> name, qty |-> quantity, res |-> result]

update_trade_history_overwrite(st, stock_code, buy_price, buy_quantity, entry_type) ==
    LET th == st.trade_history
        entries == <<[price |-> buy_price, quantity |-> buy_quantity,
                      type |-> entry_type]>>
        new == [s \in DOMAIN th \cup {stock_code} |->
                   IF s = stock_code THEN Recompute(entries) ELSE th[s]]
    IN  [st EXCEPT !.trade_history = new, !.history_file = save_trade_history(new)]

\* update_trade_history: append one entry, recompute, rewrite the file
update_trade_history(st, stock_code, buy_price, buy_quantity, entry_type) ==
    LET th == st.trade_history
        old == IF stock_code \in DOMAIN th THEN th[stock_code] ELSE EmptyRecord
        entries == Append(old.entries,
                          [price |-> buy_price, quantity |-> buy_quantity,
                           type |-> entry_type])
        new == [s \in DOMAIN th \cup {stock_code} |->
                   IF s = stock_code THEN Recompute(entries) ELSE th[s]]
    IN  [st EXCEPT !.trade_history = new, !.history_file = save_trade_history(new)]

clear_trade_history_reset(st, stock_code) ==
    LET th == st.trade_history
        new == [th EXCEPT ![stock_code] = EmptyRecord]
    IN  IF stock_code \in DOMAIN th
        THEN [st EXCEPT !.trade_history = new,
                        !.history_file = save_trade_history(new)]
        ELSE st

\* execute_sell_order's reset: del self.trade_history[stock_code], then save
clear_trade_history(st, stock_code) ==
    LET th == st.trade_history
        new == [s \in DOMAIN th \ {stock_code} |-> th[s]]
    IN  IF stock_code \in DOMAIN th
        THEN [st EXCEPT !.trade_history = new,
                        !.history_file = save_trade_history(new)]
        ELSE st

get_last_entry_price(th, stock_code) ==
    IF stock_code \in DOMAIN th /\ th[stock_code].entries # <<>>
    THEN Some(th[stock_code].entries[Len(th[stock_code].entries)].price)
    ELSE None

get_average_price(th, stock_code) ==
    IF stock_code \in DOMAIN th THEN Some(th[stock_code].avg_price) ELSE None

get_entry_count(th, stock_code) ==
    IF stock_code \in DOMAIN th THEN th[stock_code].entry_count ELSE 0

(***************************************************************************)
(* Position Sizer.                                                         *)
(***************************************************************************)
\* calculate_position_size: balance * max_loss% / stop_loss%, 0 on any error
\* (no balance, stop_loss = 0)
calculate_position_size_inverted(config, bal) ==
    IF IsNone(bal) \/ config.stop_loss = 0 THEN FracZero
    ELSE Frac(Val(bal) * config.stop_loss, config.max_loss)

calculate_position_size_default_stop(config, bal) ==
    IF IsNone(bal) THEN FracZero
    ELSE Frac(Val(bal) * config.max_loss,
              IF config.stop_loss = 0 THEN 8 ELSE config.stop_loss)

calculate_position_size(config, bal) ==
    IF IsNone(bal) \/ config.stop_loss = 0 THEN FracZero
    ELSE Frac(Val(bal) * config.max_loss, config.stop_loss)

calculate_pyramiding_amounts_whole_sum(config, total_amount) ==
    LET pyramiding_count == config.pyramiding_count
        positions == config.positions
        prefix == SubSeq(positions, 1, Min(pyramiding_count + 1, Len(positions)))
        total_ratio == SumSeq(positions)
    IN  IF pyramiding_count <= 0 \/ positions = <<>> THEN <<total_amount>>
        ELSE [i \in 1..Len(prefix) |->
                 Frac(total_amount.n * positions[i], total_amount.d * total_ratio)]

calculate_pyramiding_amounts_every_weight(config, total_amount) ==
    LET positions == config.positions
    IN  IF positions = <<>> THEN <<total_amount>>
        ELSE [i \in 1..Len(positions) |->
                 Frac(total_amount.n * positions[i],
                      total_amount.d * SumSeq(positions))]

calculate_pyramiding_amounts_all_tranches(config, total_amount) ==
    LET pyramiding_count == config.pyramiding_count
        positions == config.positions
        prefix == SubSeq(positions, 1, Min(pyramiding_count + 1, Len(positions)))
    IN  IF pyramiding_count <= 0 \/ positions = <<>> THEN <<total_amount>>
        ELSE [i \in 1..Len(positions) |->
                 Frac(total_amount.n * positions[i],
                      total_amount.d * SumSeq(prefix))]

calculate_pyramiding_amounts_unsplit(config, total_amount) ==
    LET pyramiding_count == config.pyramiding_count
        positions == config.positions
        prefix == SubSeq(positions, 1, Min(pyramiding_count + 1, Len(positions)))
    IN  IF pyramiding_count <= 0 \/ positions = <<>> THEN <<total_amount>>
        ELSE [i \in 1..Len(prefix) |-> total_amount]

\* calculate_pyramiding_amounts: the amount of each tranche
calculate_pyramiding_amounts(config, total_amount) ==
    LET pyramiding_count == config.pyramiding_count
        positions == config.positions
        prefix == SubSeq(positions, 1, Min(pyramiding_count + 1, Len(positions)))
        total_ratio == SumSeq(prefix)
    IN  IF pyramiding_count <= 0 \/ positions = <<>> THEN <<total_amount>>
        ELSE IF total_ratio = 0 THEN <<total_amount>>
        ELSE [i \in 1..Len(prefix) |->
                 Frac(total_amount.n * positions[i], total_amount.d * total_ratio)]

get_current_entry_amount_one_based(config, th, total_amount) ==
    LET current_entry_count == get_entry_count(th, config.stock_code)
        amounts == calculate_pyramiding_amounts(config, total_amount)
    IN  IF current_entry_count = 0 THEN amounts[Len(amounts)]
        ELSE IF current_entry_count <= Len(amounts) THEN amounts[current_entry_count]
        ELSE FracZero

get_current_entry_amount_unbounded(config, th, total_amount) ==
    LET current_entry_count == get_entry_count(th, config.stock_code)
        amounts == calculate_pyramiding_amounts(config, total_amount)
    IN  amounts[Min(current_entry_count + 1, Len(amounts))]

\* get_current_entry_amount: the tranche at index entry_count, 0 beyond the last
get_current_entry_amount(config, th, total_amount) ==
    LET current_entry_count == get_entry_count(th, config.stock_code)
        amounts == calculate_pyramiding_amounts(config, total_amount)
    IN  IF current_entry_count < Len(amounts) THEN amounts[current_entry_count + 1]
        ELSE FracZero

(***************************************************************************)
(* Condition Evaluator.                                                    *)
(***************************************************************************)
\* the brokerage's row for a stock in KisKR.GetMyStockList()
StockAmt(hold, stock_code) == hold[stock_code].amt

check_pyramiding_conditions_uncapped(config, th, current_price, atr) ==
    LET pyramiding_entries == config.pyramiding_entries
        current_entry_count == get_entry_count(th, config.stock_code)
        base_price == config.entry_point
        next_entry_index == current_entry_count
        entry_str == Strip(pyramiding_entries[next_entry_index + 1])
        plus == entry_str # <<>> /\ Head(entry_str) = "+"
        threshold == ParseFloat(IF plus THEN Tail(entry_str) ELSE entry_str)
        multiplier == ParseFloat(entry_str)
    IN  IF config.pyramiding_count <= 0 \/ pyramiding_entries = <<>> THEN FALSE
        ELSE IF next_entry_index >= Len(pyramiding_entries) THEN FALSE
        ELSE IF entry_str = <<>> THEN FALSE
        ELSE IF config.trading_mode = "manual"
        THEN IF IsNone(threshold) THEN FALSE
             ELSE (current_price - base_price) * 100 >= Val(threshold) * base_price
        ELSE IF IsNone(atr) THEN FALSE
             ELSE IF IsNone(multiplier) THEN FALSE
             ELSE current_price >= base_price + Val(atr) * Val(multiplier)

check_pyramiding_conditions_from_average(config, th, current_price, atr) ==
    LET average == get_average_price(th, config.stock_code)
        based == IF IsNone(average) THEN config
                 ELSE [config EXCEPT !.entry_point = Val(average).n \div Val(average).d]
    IN  check_pyramiding_conditions_uncapped(based, th, current_price, atr)
            /\ get_entry_count(th, config.stock_code) <= config.pyramiding_count

check_pyramiding_conditions_one_atr(config, th, current_price, atr) ==
    LET entries == config.pyramiding_entries
        unit == [k \in DOMAIN entries |->
                    IF IsNone(ParseFloat(entries[k])) THEN entries[k] ELSE StrOne]
    IN  check_pyramiding_conditions_uncapped(
            [config EXCEPT !.pyramiding_entries = unit], th, current_price, atr)
            /\ get_entry_count(th, config.stock_code) <= config.pyramiding_count

\* check_pyramiding_conditions
check_pyramiding_conditions(config, th, current_price, atr) ==
    LET pyramiding_entries == config.pyramiding_entries
        pyramiding_count == config.pyramiding_count
        current_entry_count == get_entry_count(th, config.stock_code)
        base_price == config.entry_point
        next_entry_index == current_entry_count
        entry_str == Strip(pyramiding_entries[next_entry_index + 1])
        plus == entry_str # <<>> /\ Head(entry_str) = "+"
        threshold == ParseFloat(IF plus THEN Tail(entry_str) ELSE entry_str)
        multiplier == ParseFloat(entry_str)
    IN  IF pyramiding_count <= 0 \/ pyramiding_entries = <<>> THEN FALSE
        ELSE IF current_entry_count > pyramiding_count THEN FALSE
        ELSE IF next_entry_index >= Len(pyramiding_entries) THEN FALSE
        ELSE IF entry_str = <<>> THEN FALSE
        ELSE IF config.trading_mode = "manual"
        THEN IF IsNone(threshold) THEN FALSE
             ELSE IF base_price = 0 THEN FALSE
             \* (current_price - base_price) / base_price >= threshold / 100
             ELSE IF base_price > 0
             THEN (current_price - base_price) * 100 >= Val(threshold) * base_price
             ELSE (current_price - base_price) * 100 <= Val(threshold) * base_price
        ELSE IF IsNone(atr) THEN FALSE
             ELSE IF IsNone(multiplier) THEN FALSE
             ELSE current_price >= base_price + Val(atr) * Val(multiplier)

check_entry_conditions_above(config, th, hold, price, atr) ==
    IF IsNone(price) THEN FALSE
    ELSE IF StockAmt(hold, config.stock_code) > 0
    THEN check_pyramiding_conditions(config, th, Val(price), atr)
    ELSE config.entry_point > 0 /\ Val(price) > config.entry_point

\* check_entry_conditions: a pyramiding check when the brokerage reports a
\* holding, else the entry_point threshold; False when the price is missing
check_entry_conditions(config, th, hold, price, atr) ==
    IF IsNone(price) THEN FALSE
    ELSE IF StockAmt(hold, config.stock_code) > 0
    THEN check_pyramiding_conditions(config, th, Val(price), atr)
    ELSE config.entry_point > 0 /\ Val(price) >= config.entry_point

NoExit == [should_exit |-> FALSE, reason |-> "none"]
Exit(why) == [should_exit |-> TRUE, reason |-> why]

check_exit_conditions_strict(config, hold, price, atr) ==
    LET holding_amount == hold[config.stock_code].amt
        cost == hold[config.stock_code].cost
        gain == Val(price) * holding_amount - cost
    IN  IF holding_amount <= 0 \/ IsNone(price) \/ cost = 0 THEN NoExit
        ELSE IF config.trading_mode = "manual"
        THEN IF gain * 100 < (0 - config.stop_loss) * cost THEN Exit("stop_loss")
             ELSE IF gain * 100 > config.take_profit * cost THEN Exit("take_profit")
             ELSE NoExit
        ELSE IF IsNone(atr) THEN NoExit
             ELSE IF gain <= 0 - Val(atr) * config.stop_loss * holding_amount
             THEN Exit("atr_stop_loss")
             ELSE IF gain >= Val(atr) * config.take_profit * holding_amount
             THEN Exit("atr_take_profit")
             ELSE NoExit

check_exit_conditions_one_atr(config, hold, price, atr) ==
    LET holding_amount == hold[config.stock_code].amt
        cost == hold[config.stock_code].cost
        gain == Val(price) * holding_amount - cost
    IN  IF holding_amount <= 0 \/ IsNone(price) \/ cost = 0 THEN NoExit
        ELSE IF config.trading_mode = "manual"
        THEN IF gain * 100 <= (0 - config.stop_loss) * cost THEN Exit("stop_loss")
             ELSE IF gain * 100 >= config.take_profit * cost THEN Exit("take_profit")
             ELSE NoExit
        ELSE IF IsNone(atr) THEN NoExit
             ELSE IF gain <= 0 - Val(atr) * holding_amount THEN Exit("atr_stop_loss")
             ELSE IF gain >= Val(atr) * holding_amount THEN Exit("atr_take_profit")
             ELSE NoExit

check_exit_conditions_atr_zero(config, hold, price, atr) ==
    check_exit_conditions_one_atr(config, hold, price,
                                  IF IsNone(atr) THEN Some(0) ELSE atr)

\* check_exit_conditions: (should_exit, reason) from the brokerage's holding
\* and average price; avg_price is cost / amt
check_exit_conditions(config, hold, price, atr) ==
    LET holding_amount == hold[config.stock_code].amt
        cost == hold[config.stock_code].cost
        stop_loss == config.stop_loss
        take_profit == config.take_profit
    IN  IF holding_amount <= 0 THEN NoExit
        ELSE IF IsNone(price) \/ cost = 0 THEN NoExit
        ELSE IF config.trading_mode = "manual"
        \* profit_percent = (current_price - avg_price) / avg_price * 100
        THEN IF (Val(price) * holding_amount - cost) * 100 <= (0 - stop_loss) * cost
             THEN Exit("stop_loss")
             ELSE IF (Val(price) * holding_amount - cost) * 100 >= take_profit * cost
             THEN Exit("take_profit")
             ELSE NoExit
        ELSE IF IsNone(atr) THEN NoExit
             ELSE IF Val(price) * holding_amount
                       <= cost - Val(atr) * stop_loss * holding_amount
             THEN Exit("atr_stop_loss")
             ELSE IF Val(price) * holding_amount
                       >= cost + Val(atr) * take_profit * holding_amount
             THEN Exit("atr_take_profit")
             ELSE NoExit

(***************************************************************************)
(* Order execution.  log_trade appends one row to the trade log CSV; the   *)
(* row is kept in the trace of the body that wrote it.                     *)
(* update_trading_summary, which only rewrites the summary CSV and         *)
(* swallows its own errors, leaves no trace in this state.                 *)
(***************************************************************************)
Delivery(telegram) == IF telegram THEN "sent" ELSE "failed"
\* send_trade_alert / send_error_alert: one best-effort telegram message
\* the message of a buy states total_quantity, the total held (0: not stated)
send_trade_alert(st, total_quantity, telegram) ==
    Emit(st, Event("trade_alert", total_quantity, Delivery(telegram)))
send_error_alert(st, telegram) == Emit(st, Event("error_alert", 0, Delivery(telegram)))

\* log_trade: one row appended ("a") to trade_log_<mode>.csv, with the
\* action, price, quantity and total_quantity columns
Row(action, price, quantity, total_quantity) ==
    [ev |-> "log_trade", qty |-> quantity, res |-> action, price |-> price,
     total_quantity |-> total_quantity]
log_trade(st, action, price, quantity, total_quantity) ==
    Emit(st, Row(action, price, quantity, total_quantity))

\* the brokerage account after a filled market buy / a filled full sell
Bought(hold, stock_code, price, quantity) ==
    [hold EXCEPT ![stock_code] = [amt |-> @.amt + quantity,
                                  cost |-> @.cost + price * quantity]]
Sold(hold, stock_code) ==
    [hold EXCEPT ![stock_code] = [amt |-> 0, cost |-> 0]]

execute_buy_order_alert_first(st, config, amount, price, order, telegram) ==
    LET stock_code == config.stock_code
        current_price == Val(price)
        buy_quantity == FracFloorDiv(amount, current_price)
        requested == Emit(st, Event("buy_order", buy_quantity, order))
        filled == [requested EXCEPT
                      !.holdings = Bought(@, stock_code, current_price, buy_quantity)]
        entry_type == EntryLabel(get_entry_count(filled.trade_history, stock_code))
        recorded == update_trade_history(filled, stock_code, current_price,
                                         buy_quantity, entry_type)
        total_quantity == get_entry_count(recorded.trade_history, stock_code)
                              * buy_quantity
        logged == log_trade(recorded, "BUY", current_price, buy_quantity,
                            total_quantity)
    IN  IF IsNone(price) THEN send_error_alert(st, telegram)
        ELSE IF buy_quantity <= 0 THEN st
        ELSE IF order = "ok"
        THEN send_trade_alert(IF telegram THEN logged ELSE filled, total_quantity,
                              telegram)
        ELSE send_error_alert(requested, telegram)

execute_buy_order_any_quantity(st, config, amount, price, order, telegram) ==
    LET stock_code == config.stock_code
        current_price == Val(price)
        buy_quantity == FracFloorDiv(amount, current_price)
        requested == Emit(st, Event("buy_order", buy_quantity, order))
        filled == [requested EXCEPT
                      !.holdings = Bought(@, stock_code, current_price, buy_quantity)]
        entry_type == EntryLabel(get_entry_count(filled.trade_history, stock_code))
        recorded == update_trade_history(filled, stock_code, current_price,
                                         buy_quantity, entry_type)
        total_quantity == get_entry_count(recorded.trade_history, stock_code)
                              * buy_quantity
        logged == log_trade(recorded, "BUY", current_price, buy_quantity,
                            total_quantity)
    IN  IF IsNone(price) THEN send_error_alert(st, telegram)
        ELSE IF order = "ok" THEN send_trade_alert(logged, total_quantity, telegram)
        ELSE send_error_alert(requested, telegram)

execute_buy_order_unchecked(st, config, amount, price, order, telegram) ==
    LET stock_code == config.stock_code
        current_price == Val(price)
        buy_quantity == FracFloorDiv(amount, current_price)
        requested == Emit(st, Event("buy_order", buy_quantity, order))
        filled == [requested EXCEPT
                      !.holdings = Bought(@, stock_code, current_price, buy_quantity)]
        entry_type == EntryLabel(get_entry_count(filled.trade_history, stock_code))
        recorded == update_trade_history(filled, stock_code, current_price,
                                         buy_quantity, entry_type)
        total_quantity == get_entry_count(recorded.trade_history, stock_code)
                              * buy_quantity
        logged == log_trade(recorded, "BUY", current_price, buy_quantity,
                            total_quantity)
    IN  IF IsNone(price) THEN send_error_alert(st, telegram)
        ELSE IF buy_quantity <= 0 THEN st
        ELSE send_trade_alert(logged, total_quantity, telegram)

execute_buy_order_label_after(st, config, amount, price, order, telegram) ==
    LET stock_code == config.stock_code
        current_price == Val(price)
        buy_quantity == FracFloorDiv(amount, current_price)
        requested == Emit(st, Event("buy_order", buy_quantity, order))
        filled == [requested EXCEPT
                      !.holdings = Bought(@, stock_code, current_price, buy_quantity)]
        recorded == update_trade_history(
                        filled, stock_code, current_price, buy_quantity,
                        EntryLabel(get_entry_count(filled.trade_history, stock_code) + 1))
        total_quantity == get_entry_count(recorded.trade_history, stock_code)
                              * buy_quantity
        logged == log_trade(recorded, "BUY", current_price, buy_quantity,
                            total_quantity)
    IN  IF IsNone(price) THEN send_error_alert(st, telegram)
        ELSE IF buy_quantity <= 0 THEN st
        ELSE IF order = "ok" THEN send_trade_alert(logged, total_quantity, telegram)
        ELSE send_error_alert(requested, telegram)

\* execute_buy_order(config, amount): price is the quote read first, order the
\* gateway's answer, telegram whether the notification goes through
execute_buy_order(st, config, amount, price, order, telegram) ==
    LET stock_code == config.stock_code
        current_price == Val(price)
        buy_quantity == FracFloorDiv(amount, current_price)
        requested == Emit(st, Event("buy_order", buy_quantity, order))
        filled == [requested EXCEPT
                      !.holdings = Bought(@, stock_code, current_price, buy_quantity)]
        entry_type == EntryLabel(get_entry_count(filled.trade_history, stock_code))
        recorded == update_trade_history(filled, stock_code, current_price,
                                         buy_quantity, entry_type)
        total_quantity == get_entry_count(recorded.trade_history, stock_code)
                              * buy_quantity
        logged == log_trade(recorded, "BUY", current_price, buy_quantity,
                            total_quantity)
    IN  IF IsNone(price) THEN send_error_alert(st, telegram)
        ELSE IF buy_quantity <= 0 THEN st
        ELSE IF order = "ok" THEN send_trade_alert(logged, total_quantity, telegram)
        ELSE send_error_alert(requested, telegram)

execute_sell_order_ledger_quantity(st, config, reason, price, order, telegram) ==
    LET stock_code == config.stock_code
        th == st.trade_history
        holding_amount == IF stock_code \in DOMAIN th
                          THEN th[stock_code].total_quantity ELSE 0
        requested == Emit(st, Event("sell_order", holding_amount, order))
        filled == [requested EXCEPT !.holdings = Sold(@, stock_code)]
        logged == log_trade(filled, "SELL", Val(price), holding_amount, 0)
        cleared == clear_trade_history(logged, stock_code)
    IN  IF holding_amount <= 0 THEN st
        ELSE IF order = "ok"
        THEN IF IsNone(price) THEN send_error_alert(filled, telegram)
             ELSE send_trade_alert(cleared, 0, telegram)
        ELSE send_error_alert(requested, telegram)

execute_sell_order_retry(st, config, reason, price, order, telegram) ==
    LET stock_code == config.stock_code
        holding_amount == StockAmt(st.holdings, stock_code)
        requested == Emit(st, Event("sell_order", holding_amount, order))
        again == Emit(requested, Event("sell_order", holding_amount, order))
        filled == [requested EXCEPT !.holdings = Sold(@, stock_code)]
        logged == log_trade(filled, "SELL", Val(price), holding_amount, 0)
        cleared == clear_trade_history(logged, stock_code)
    IN  IF holding_amount <= 0 THEN st
        ELSE IF order = "ok"
        THEN IF IsNone(price) THEN send_error_alert(filled, telegram)
             ELSE send_trade_alert(cleared, 0, telegram)
        ELSE send_error_alert(again, telegram)

\* execute_sell_order(config, reason): order is the gateway's answer, price the
\* quote read after a successful sell
execute_sell_order(st, config, reason, price, order, telegram) ==
    LET stock_code == config.stock_code
        holding_amount == StockAmt(st.holdings, stock_code)
        requested == Emit(st, Event("sell_order", holding_amount, order))
        filled == [requested EXCEPT !.holdings = Sold(@, stock_code)]
        logged == log_trade(filled, "SELL", Val(price), holding_amount, 0)
        cleared == clear_trade_history(logged, stock_code)
    IN  IF holding_amount <= 0 THEN st
        ELSE IF order = "ok"
        THEN IF IsNone(price) THEN send_error_alert(filled, telegram)
             ELSE send_trade_alert(cleared, 0, telegram)
        ELSE send_error_alert(requested, telegram)

(***************************************************************************)
(* Cycle Orchestrator.                                                     *)
(***************************************************************************)
is_market_open_weekend(now) ==
    IF now.weekday > 5 THEN FALSE
    ELSE 900 <= now.time /\ now.time <= 1530

\* is_market_open: Monday to Friday, "0900" <= HHMM <= "1530"
is_market_open(now) ==
    IF now.weekday >= 5 THEN FALSE
    ELSE 900 <= now.time /\ now.time <= 1530

\* the equity guard of run_trading_cycle
has_equity(bal) == ~(IsNone(bal) \/ Val(bal) <= 0)

\* The inputs one loop body reads from its collaborators, in call order.
Inputs(exit_price, exit_atr, entry_price, entry_atr, bal, order_price, order, telegram) ==
    [exit_price |-> exit_price, exit_atr |-> exit_atr, entry_price |-> entry_price,
     entry_atr |-> entry_atr, balance |-> bal, order_price |-> order_price,
     order |-> order, telegram |-> telegram]

\* the entry branch of the loop body: check, size, pick the tranche, buy
enter_position(st, config, in) ==
    LET should_enter == check_entry_conditions(config, st.trade_history, st.holdings,
                                               in.entry_price, in.entry_atr)
        checked == Emit(st, Event("entry_check", 0,
                                  IF should_enter THEN "enter" ELSE "none"))
        position_amount == calculate_position_size(config, in.balance)
        current_amount == get_current_entry_amount(config, st.trade_history,
                                                   position_amount)
    IN  IF ~should_enter THEN checked
        ELSE IF ~FracPos(position_amount) THEN checked
        ELSE IF ~FracPos(current_amount) THEN checked
        ELSE execute_buy_order(checked, config, current_amount, in.order_price,
                               in.order, in.telegram)

evaluate_config_no_continue(st, config, in) ==
    LET exit == check_exit_conditions(config, st.holdings, in.exit_price, in.exit_atr)
        checked == Emit(st, Event("exit_check", 0, exit.reason))
    IN  IF IsNone(config.stock_name) THEN Emit(st, Event("exception", 0, "KeyError"))
        ELSE IF exit.should_exit
        THEN enter_position(execute_sell_order(checked, config, exit.reason,
                                               in.order_price, in.order, in.telegram),
                            config, in)
        ELSE enter_position(checked, config, in)

\* the body of "for config in self.trading_configs" for one config
evaluate_config(st, config, in) ==
    LET exit == check_exit_conditions(config, st.holdings, in.exit_price, in.exit_atr)
        checked == Emit(st, Event("exit_check", 0, exit.reason))
    IN  IF IsNone(config.stock_name) THEN Emit(st, Event("exception", 0, "KeyError"))
        ELSE IF exit.should_exit
        THEN execute_sell_order(checked, config, exit.reason, in.order_price,
                                in.order, in.telegram)
        ELSE enter_position(checked, config, in)

NoLedger == [s \in {} |-> EmptyRecord]
NoHoldings == [s \in Stocks |-> [amt |-> 0, cost |-> 0]]
\* an invocation that cron has not started; no decision function was called
\* directly
NoOther == [pc |-> "absent", idx |-> 1, trade_history |-> NoLedger]
OnlyThis == << >>

\* bot states built by the program's own steps: nothing held and no ledger;
\* the state after the entry branch of the loop body bought at a price
Flat ==
    [trade_history |-> NoLedger, history_file |-> NoLedger,
     holdings |-> NoHoldings, events |-> <<>>]
Funded == CHOOSE b \in Balances : has_equity(b)
AfterBuy(st, config, price) ==
    LET position_amount == calculate_position_size(config, Funded)
        entry_amount == get_current_entry_amount(config, st.trade_history,
                                                 position_amount)
    IN  [execute_buy_order(st, config, entry_amount, Some(price), "ok", TRUE)
            EXCEPT !.events = <<>>]
NoProbe == [fn |-> "none"]
\* stocks.json does not exist: load_stocks returns []
NoStocks == << >>

Init ==
    /\ config_file \in ConfigFiles
    /\ trading_configs = load_configs(config_file)
    /\ trade_history = NoLedger
    /\ history_file = NoLedger
    /\ holdings = NoHoldings
    /\ pc = "ready"
    /\ idx = 1
    /\ clock = None
    /\ balance = None
    /\ evaluated = <<>>
    /\ events = <<>>
    /\ other = OnlyThis
    /\ probe = NoProbe
    /\ stocks_file = NoStocks
    /\ quote = None

\* run_trading_cycle up to the for-loop: market gate, balance, equity guard
run_trading_cycle_begin ==
    /\ pc = "ready"
    /\ \E weekday \in Weekdays, time \in Times, bal \in Balances :
          LET now == [weekday |-> weekday, time |-> time]
          IN  /\ clock' = Some(now)
              /\ balance' = IF is_market_open(now) THEN bal ELSE None
              /\ pc' = IF is_market_open(now) /\ has_equity(bal) THEN "loop" ELSE "done"
    /\ idx' = 1
    /\ UNCHANGED <<config_file, trading_configs, trade_history, history_file,
                   holdings, evaluated, events, other, probe, stocks_file, quote>>

\* The inputs a loop body can read.  A collaborator that the body does not
\* call on its path is fixed to None (to "rejected", FALSE), so that each
\* path is drawn once.
SellInputs(xp, xa) ==
    UNION { { Inputs(xp, xa, None, None, None, op, o, t) :
                op \in IF o = "ok" THEN PriceFeed ELSE {None},
                t \in BOOLEAN } :
            o \in OrderResults }

EntryInputs(st, config, xp, xa, ep, ea) ==
    LET should_enter == check_entry_conditions(config, st.trade_history,
                                               st.holdings, ep, ea)
        Sized(b) ==
            LET position_amount == calculate_position_size(config, b)
                current_amount == get_current_entry_amount(config, st.trade_history,
                                                           position_amount)
            IN  IF FracPos(position_amount) /\ FracPos(current_amount)
                THEN UNION { { Inputs(xp, xa, ep, ea, b, op, o, t) :
                                 o \in IF op # None
                                          /\ FracFloorDiv(current_amount, Val(op)) > 0
                                       THEN OrderResults ELSE {"rejected"},
                                 t \in IF op = None
                                          \/ FracFloorDiv(current_amount, Val(op)) > 0
                                       THEN BOOLEAN ELSE {FALSE} } :
                             op \in PriceFeed }
                ELSE {Inputs(xp, xa, ep, ea, b, None, "rejected", FALSE)}
    IN  IF should_enter THEN UNION { Sized(b) : b \in Balances }
        ELSE {Inputs(xp, xa, ep, ea, None, None, "rejected", FALSE)}

LoopInputs(st, config) ==
    LET held == StockAmt(st.holdings, config.stock_code) > 0
        turtle == config.trading_mode # "manual"
        AfterExit(xp, xa) ==
            IF check_exit_conditions(config, st.holdings, xp, xa).should_exit
            THEN SellInputs(xp, xa)
            ELSE UNION { UNION { EntryInputs(st, config, xp, xa, ep, ea) :
                                   ea \in IF held /\ turtle /\ ep # None
                                          THEN AtrFeed ELSE {None} } :
                         ep \in PriceFeed }
    IN  IF IsNone(config.stock_name)
        THEN {Inputs(None, None, None, None, None, None, "rejected", FALSE)}
        ELSE UNION { UNION { AfterExit(xp, xa) :
                               xa \in IF held /\ turtle /\ xp # None
                                      THEN AtrFeed ELSE {None} } :
                     xp \in IF held THEN PriceFeed ELSE {None} }

\* "except Exception" inside the for-loop: whether or not the body raised,
\* the loop goes on with the next config
after_body_propagate(i, n, raised) == IF raised THEN n + 1 ELSE i + 1
after_body(i, n, raised) == i + 1

Raised(trace) == \E k \in 1..Len(trace) : trace[k].ev = "exception"

\* one iteration of the for-loop of run_trading_cycle
run_trading_cycle_step ==
    /\ pc = "loop"
    /\ idx <= Len(trading_configs)
    /\ \E in \in LoopInputs([trade_history |-> trade_history, holdings |-> holdings],
                             trading_configs[idx]) :
          LET st == evaluate_config([trade_history |-> trade_history,
                                     history_file |-> history_file,
                                     holdings |-> holdings,
                                     events |-> <<>>],
                                    trading_configs[idx], in)
          IN  /\ trade_history' = st.trade_history
              /\ history_file' = st.history_file
              /\ holdings' = st.holdings
              /\ events' = st.events
              /\ idx' = after_body(idx, Len(trading_configs), Raised(st.events))
    /\ evaluated' = Append(evaluated, idx)
    /\ UNCHANGED <<config_file, trading_configs, pc, clock, balance, other, probe, stocks_file, quote>>

\* the for-loop is exhausted: the cycle is complete (the daily summary sent
\* at 15:30 reads the CSV log only)
run_trading_cycle_end ==
    /\ pc = "loop"
    /\ idx > Len(trading_configs)
    /\ pc' = "done"
    /\ UNCHANGED <<config_file, trading_configs, trade_history, history_file,
                   holdings, idx, clock, balance, evaluated, events, other, probe, stocks_file, quote>>

\* main: the next invocation constructs a new bot (load_configs,
\* load_trade_history) that is ready to run its cycle
main ==
    /\ pc = "done"
    /\ trading_configs' = load_configs(config_file)
    /\ trade_history' = load_trade_history(history_file)
    /\ pc' = "ready"
    /\ idx' = 1
    /\ clock' = None
    /\ balance' = None
    /\ evaluated' = <<>>
    /\ events' = <<>>
    /\ UNCHANGED <<config_file, history_file, holdings, other, probe, stocks_file, quote>>

Next ==
    \/ run_trading_cycle_begin
    \/ run_trading_cycle_step
    \/ run_trading_cycle_end
    \/ main

Spec == Init /\ [][Next]_vars

(***************************************************************************)
(* Overlapping invocations.  cron starts main every minute without a lock; *)
(* an invocation whose cycle lasts longer than that is still running when  *)
(* the next one loads the same ledger file.  An invocation is one process: *)
(* it runs one cycle and exits.  Each has its own in-memory ledger         *)
(* (other[p].trade_history) and its own place in the for-loop; the file    *)
(* and the brokerage account are shared.                                   *)
(***************************************************************************)
Invocations == {"first", "second"}

\* the configs of the overlapping invocations: two stocks, one tranche each
OverlapFile ==
    <<ManualConfig("005930", <<>>, <<>>, 0), TurtleConfig("000660", <<>>, <<>>, 0)>>

\* what earlier invocations left behind: nothing, or one position with its record
OverlapStarts == {Flat} \cup {AfterBuy(Flat, OverlapFile[1], p) : p \in {100}}

OverlapInit ==
    /\ config_file = OverlapFile
    /\ trading_configs = load_configs(config_file)
    /\ trade_history = NoLedger
    /\ \E st \in OverlapStarts :
          /\ history_file = st.history_file
          /\ holdings = st.holdings
    /\ pc = "ready"
    /\ idx = 1
    /\ clock = None
    /\ balance = None
    /\ evaluated = <<>>
    /\ events = <<>>
    /\ other = [p \in Invocations |-> NoOther]
    /\ probe = NoProbe
    /\ stocks_file = NoStocks
    /\ quote = None

\* main of invocation p: load_configs, load_trade_history
overlap_main(p) ==
    /\ other[p].pc = "absent"
    /\ other' = [other EXCEPT ![p] = [pc |-> "ready", idx |-> 1,
                     trade_history |-> load_trade_history(history_file)]]
    /\ UNCHANGED <<config_file, trading_configs, trade_history, history_file,
                   holdings, pc, idx, clock, balance, evaluated, events, probe, stocks_file, quote>>

\* run_trading_cycle of invocation p up to the for-loop
overlap_begin(p) ==
    /\ other[p].pc = "ready"
    /\ \E weekday \in Weekdays, time \in Times, bal \in Balances :
          LET now == [weekday |-> weekday, time |-> time]
          IN  other' = [other EXCEPT ![p].pc =
                           IF is_market_open(now) /\ has_equity(bal)
                           THEN "loop" ELSE "done"]
    /\ UNCHANGED <<config_file, trading_configs, trade_history, history_file,
                   holdings, pc, idx, clock, balance, evaluated, events, probe, stocks_file, quote>>

\* one iteration of the for-loop of invocation p
overlap_step(p) ==
    /\ other[p].pc = "loop"
    /\ other[p].idx <= Len(trading_configs)
    /\ \E in \in LoopInputs([trade_history |-> other[p].trade_history,
                             holdings |-> holdings],
                            trading_configs[other[p].idx]) :
          LET st == evaluate_config([trade_history |-> other[p].trade_history,
                                     history_file |-> history_file,
                                     holdings |-> holdings,
                                     events |-> <<>>],
                                    trading_configs[other[p].idx], in)
          IN  /\ other' = [other EXCEPT
                             ![p].trade_history = st.trade_history,
                             ![p].idx = after_body(other[p].idx, Len(trading_configs),
                                                   Raised(st.events))]
              /\ history_file' = st.history_file
              /\ holdings' = st.holdings
    /\ UNCHANGED <<config_file, trading_configs, trade_history, pc, idx, clock,
                   balance, evaluated, events, probe, stocks_file, quote>>

\* the for-loop of invocation p is exhausted
overlap_end(p) ==
    /\ other[p].pc = "loop"
    /\ other[p].idx > Len(trading_configs)
    /\ other' = [other EXCEPT ![p].pc = "done"]
    /\ UNCHANGED <<config_file, trading_configs, trade_history, history_file,
                   holdings, pc, idx, clock, balance, evaluated, events, probe, stocks_file, quote>>

OverlapNext ==
    \E p \in Invocations :
        \/ overlap_main(p)
        \/ overlap_begin(p)
        \/ overlap_step(p)
        \/ overlap_end(p)

OverlapSpec == OverlapInit /\ [][OverlapNext]_vars

(***************************************************************************)
(* Direct calls of the decision functions.  Each action calls one function *)
(* of the evaluator, on a config, a bot state and quotes drawn from the    *)
(* sets below, and leaves the arguments and the return value in probe.     *)
(***************************************************************************)
StrPlus10 == <<"+", "1", "0">>
StrFive == <<"5">>
StrTwo == <<"2">>

WithEntryPoint(config, entry_point) == [config EXCEPT !.entry_point = entry_point]
WithStops(config, stop_loss, take_profit) ==
    [config EXCEPT !.stop_loss = stop_loss, !.take_profit = take_profit]

\* the position was sold at the brokerage but its record is still in the
\* ledger (the sell's price lookup failed, see execute_sell_order)
Stale(st) == [st EXCEPT !.holdings = NoHoldings]

\* the bot states a config can meet: nothing bought; one or two tranches
\* bought at the entry point and above it; a stale record
CallStates(config) ==
    LET once == {AfterBuy(Flat, config, p) : p \in {100, 110}}
        twice == {AfterBuy(st, config, 110) : st \in once}
    IN  IF config.entry_point # 100 \/ config.stop_loss = 0 THEN {Flat}
        ELSE {Flat} \cup once \cup twice \cup {Stale(st) : st \in once \cup twice}

CallInit ==
    /\ config_file = << >>
    /\ trading_configs = << >>
    /\ trade_history = NoLedger
    /\ history_file = NoLedger
    /\ holdings = NoHoldings
    /\ pc = "ready"
    /\ idx = 1
    /\ clock = None
    /\ balance = None
    /\ evaluated = <<>>
    /\ events = <<>>
    /\ other = OnlyThis
    /\ probe = NoProbe
    /\ stocks_file = NoStocks
    /\ quote = None

Untouched ==
    UNCHANGED <<config_file, trading_configs, trade_history, history_file,
                holdings, pc, idx, clock, balance, evaluated, events, other,
                stocks_file, quote>>

EntryPointConfigs ==
    { WithEntryPoint(c, e) :
        c \in { ManualConfig("005930", <<StrPlus5, StrPlus10>>, <<50, 50>>, 1),
                TurtleConfig("000660", <<StrOne, StrTwo>>, <<50, 50>>, 1) },
        e \in {0, 100, 75000} }
EntryQuotes ==
    {None} \cup {Some(p) : p \in {99, 100, 101, 110, 74999, 75000, 75001}}

\* self.check_entry_conditions(config)
apply_check_entry_conditions ==
    /\ probe = NoProbe
    /\ \E config \in EntryPointConfigs, price \in EntryQuotes, atr \in AtrFeed :
          \E st \in CallStates(config) :
              probe' = [fn |-> "check_entry_conditions",
                        config |-> config,
                        trade_history |-> st.trade_history,
                        holdings |-> st.holdings,
                        price |-> price,
                        atr |-> atr,
                        out |-> check_entry_conditions(config, st.trade_history,
                                                       st.holdings, price, atr)]
    /\ Untouched

\* configs that pyramid once (pyramiding_count 1) with the entries lists a
\* config file can carry: well-formed, too short, blank item, item that is
\* not a number, longer than pyramiding_count + 1; and a config that does
\* not pyramid
PyramidConfigs ==
    { ManualConfig("005930", entries, <<50, 50>>, 1) :
        entries \in { <<StrPlus5, StrPlus10>>, <<StrPlus5, StrFive>>, <<StrPlus5>>,
                      <<StrPlus5, StrBlank>>, <<StrPlus5, StrBad>>,
                      <<StrPlus5, StrPlus5, StrPlus5>> } }
    \cup
    { WithStops(TurtleConfig("000660", entries, <<50, 50>>, 1), 2, 3) :
        entries \in { <<StrOne, StrTwo>>, <<StrOne>>, <<StrOne, StrBlank>>,
                      <<StrOne, StrBad>>, <<StrOne, StrOne, StrOne>> } }
    \cup
    { ManualConfig("005930", <<>>, <<>>, 0) }
PyramidQuotes == {103, 104, 105, 106, 108, 109, 110, 111, 119, 120, 121}
CallAtr == {None, Some(4), Some(10)}

\* self.check_pyramiding_conditions(config, stock_code, current_price)
apply_check_pyramiding_conditions ==
    /\ probe = NoProbe
    /\ \E config \in PyramidConfigs, price \in PyramidQuotes, atr \in CallAtr :
          \E st \in CallStates(config) :
              probe' = [fn |-> "check_pyramiding_conditions",
                        config |-> config,
                        trade_history |-> st.trade_history,
                        price |-> price,
                        atr |-> atr,
                        out |-> check_pyramiding_conditions(config, st.trade_history,
                                                            price, atr)]
    /\ Untouched

\* configs whose stop_loss is 0, for each mode and two values of max_loss
ZeroStopConfigs ==
    { [c EXCEPT !.stop_loss = 0, !.max_loss = max_loss] :
        c \in { ManualConfig("005930", <<StrPlus5, StrPlus10>>, <<50, 50>>, 1),
                TurtleConfig("000660", <<>>, <<>>, 0) },
        max_loss \in {1, 2} }

\* a config whose first tranche (20 percent of the position) is worth less
\* than one share at the entry point
ThinConfig == ManualConfig("005930", <<StrPlus5, StrPlus10>>, <<20, 80>>, 1)

\* one body of the for-loop of run_trading_cycle, with the inputs it read
apply_evaluate_config ==
    /\ probe = NoProbe
    /\ \E config \in PyramidConfigs \cup ZeroStopConfigs \cup {ThinConfig} :
          \E st \in CallStates(config) :
              \E in \in LoopInputs(st, config) :
                  probe' = [fn |-> "evaluate_config",
                            config |-> config,
                            trade_history |-> st.trade_history,
                            history_file |-> st.history_file,
                            holdings |-> st.holdings,
                            in |-> in,
                            out |-> evaluate_config(st, config, in)]
    /\ Untouched

\* configs with the stops of the two modes; what the brokerage reports for
\* the stock: nothing, or a holding with its purchase cost (average price
\* 100, 1000, 105); the quotes around the stop and target prices
ExitConfigs ==
    { WithStops(ManualConfig("005930", <<>>, <<>>, 0), 5, take_profit) :
        take_profit \in {10, 20} }
    \cup { WithStops(TurtleConfig("000660", <<>>, <<>>, 0), 2, 3) }
Reported ==
    { [amt |-> 0, cost |-> 0], [amt |-> 10, cost |-> 1000],
      [amt |-> 1, cost |-> 1000], [amt |-> 2, cost |-> 210] }
ExitQuotes ==
    {None} \cup {Some(p) : p \in {87, 88, 91, 92, 93, 94, 95, 96, 100, 105, 109, 110, 111,
                                   112, 113, 119, 120, 121, 129, 130, 131,
                                   949, 950, 951, 1050, 1199, 1200, 1201}}

\* self.check_exit_conditions(config)
apply_check_exit_conditions ==
    /\ probe = NoProbe
    /\ \E config \in ExitConfigs, held \in Reported, price \in ExitQuotes,
          atr \in CallAtr :
          LET hold == [NoHoldings EXCEPT ![config.stock_code] = held]
          IN  probe' = [fn |-> "check_exit_conditions",
                        config |-> config,
                        holdings |-> hold,
                        price |-> price,
                        atr |-> atr,
                        out |-> check_exit_conditions(config, hold, price, atr)]
    /\ Untouched

\* configs with the risk parameters of the sizing formula; the balances
\* KisKR.GetBalance can report (TotalMoney), 10,000,000 among them
SizingConfigs ==
    { [ManualConfig("005930", <<>>, <<>>, 0) EXCEPT
          !.max_loss = max_loss, !.stop_loss = stop_loss] :
        max_loss \in {1, 2, 10}, stop_loss \in {1, 5, 8} }
SizingBalances == Balances \cup {Some(10000000)}

\* self.calculate_position_size(config)
apply_calculate_position_size ==
    /\ probe = NoProbe
    /\ \E config \in SizingConfigs \cup ZeroStopConfigs, bal \in SizingBalances :
          probe' = [fn |-> "calculate_position_size",
                    config |-> config,
                    balance |-> bal,
                    out |-> calculate_position_size(config, bal)]
    /\ Untouched

\* configs with the weights of the tranches: none, as many as
\* pyramiding_count + 1, fewer, more; pairs that differ behind the prefix
WeightedConfig(positions, count) ==
    ManualConfig("005930", <<StrPlus5, StrPlus10, StrPlus10, StrPlus10>>, positions, count)
EvenConfig == WeightedConfig(<<25, 25, 25, 25>>, 3)
AllocationConfigs ==
    { WeightedConfig(positions, count) :
        positions \in { <<>>, <<100>>, <<50, 50>>, <<30, 70>>, <<50, 30, 20>>,
                        <<50, 30, 40>>, <<25, 25, 25, 25>>, <<25, 25, 25, 25, 40>> },
        count \in {0, 1, 3} }
Totals == {FracOfInt(0), FracOfInt(400), FracOfInt(1000), Frac(1000, 3)}
TotalsOf(config) ==
    IF config = EvenConfig THEN Totals \cup {FracOfInt(20000000)} ELSE Totals

\* self.calculate_pyramiding_amounts(config, total_amount)
apply_calculate_pyramiding_amounts ==
    /\ probe = NoProbe
    /\ \E config \in AllocationConfigs :
          \E total_amount \in TotalsOf(config) :
              probe' = [fn |-> "calculate_pyramiding_amounts",
                        config |-> config,
                        total_amount |-> total_amount,
                        out |-> calculate_pyramiding_amounts(config, total_amount)]
    /\ Untouched

\* the bot state after k entry branches in a row bought at the entry point
\* (a branch whose tranche amount is 0 buys nothing)
RECURSIVE BoughtTimes(_, _)
BoughtTimes(config, k) ==
    IF k = 0 THEN Flat ELSE AfterBuy(BoughtTimes(config, k - 1), config, 100)

\* self.get_current_entry_amount(config, position_amount)
apply_get_current_entry_amount ==
    /\ probe = NoProbe
    /\ \E config \in AllocationConfigs, k \in 0..5, total_amount \in Totals :
          LET st == BoughtTimes(config, k)
          IN  probe' = [fn |-> "get_current_entry_amount",
                        config |-> config,
                        trade_history |-> st.trade_history,
                        total_amount |-> total_amount,
                        out |-> get_current_entry_amount(config, st.trade_history,
                                                         total_amount)]
    /\ Untouched

\* self.execute_sell_order(config, reason), on a ledger with one entry and
\* whatever the brokerage reports for the stock at that moment
apply_execute_sell_order ==
    /\ probe = NoProbe
    /\ \E config \in ExitConfigs, held \in Reported, order \in OrderResults,
          price \in PriceFeed, telegram \in BOOLEAN :
          LET st == [AfterBuy(Flat, config, 100) EXCEPT
                        !.holdings[config.stock_code] = held]
          IN  probe' = [fn |-> "execute_sell_order",
                        config |-> config,
                        trade_history |-> st.trade_history,
                        holdings |-> st.holdings,
                        order |-> order,
                        price |-> price,
                        telegram |-> telegram,
                        out |-> execute_sell_order(st, config, "stop_loss", price,
                                                   order, telegram)]
    /\ Untouched

\* the caller is done with the return value; the next call starts afresh
call_returns ==
    /\ probe # NoProbe
    /\ probe' = NoProbe
    /\ Untouched

CallNext ==
    \/ apply_execute_sell_order
    \/ apply_calculate_position_size
    \/ apply_get_current_entry_amount
    \/ apply_calculate_pyramiding_amounts
    \/ apply_check_entry_conditions
    \/ apply_check_exit_conditions
    \/ apply_check_pyramiding_conditions
    \/ apply_evaluate_config
    \/ call_returns

CallSpec == CallInit /\ [][CallNext]_vars

(***************************************************************************)
(* The config store of the API server (src/main.py): trading_configs.json  *)
(* as the endpoints read and rewrite it.  No endpoint awaits between its   *)
(* load and its save, so a request is one step.  created_at and            *)
(* updated_at, which no writing endpoint reads back, are left out.         *)
(***************************************************************************)
Users == {"u1", "u2"}
TradingModes == {"manual", "turtle"}
\* ids that get_next_config_id may hand out in a run
MaxConfigId == 3
ConfigIds == 1..MaxConfigId

\* AutoTradingConfig: the request body of POST and PUT, id not yet set
AutoTradingConfig(user_id, stock_code, trading_mode, is_active) ==
    [id |-> None, stock_code |-> stock_code, trading_mode |-> trading_mode,
     user_id |-> user_id, is_active |-> is_active]
ConfigBodies ==
    { AutoTradingConfig(u, "005930", m, a) :
        u \in Users, m \in TradingModes, a \in BOOLEAN }

\* what an endpoint leaves behind: the file and the HTTP status
Answer(data, status) == [data |-> data, status |-> status]
\* "for i, x in enumerate(data): if <test>": the first index that passes,
\* given the indices that pass
FirstIndex(passing) ==
    IF passing = {} THEN None
    ELSE Some(CHOOSE i \in passing : \A j \in passing : i <= j)
\* list.pop(i)
Pop(data, i) == SubSeq(data, 1, i - 1) \o SubSeq(data, i + 1, Len(data))

\* get_next_config_id / get_next_stock_id: 1 for an empty file, else max + 1
get_next_id(data) ==
    IF data = <<>> THEN 1
    ELSE (CHOOSE m \in {data[i].id : i \in 1..Len(data)} :
             \A i \in 1..Len(data) : data[i].id <= m) + 1

\* POST /trading-configs: replace the active config of the same user and
\* stock, keeping its id, else append under a new id
create_or_update_trading_config(configs_data, config) ==
    LET Same(existing_config) ==
            /\ existing_config.user_id = config.user_id
            /\ existing_config.stock_code = config.stock_code
            /\ existing_config.is_active
        existing_config_index == FirstIndex({k \in 1..Len(configs_data) :
                                Same(configs_data[k])})
        i == Val(existing_config_index)
    IN  IF ~IsNone(existing_config_index)
        THEN Answer([configs_data EXCEPT
                        ![i] = [config EXCEPT !.id = configs_data[i].id]], 200)
        ELSE Answer(Append(configs_data,
                           [config EXCEPT !.id = get_next_id(configs_data)]), 200)

\* PUT /trading-configs/{config_id}: 400 when another active config has the
\* user and stock of an active body, 404 for an unknown id
update_trading_config(configs_data, config_id, updated_config) ==
    LET HasId(config) == config.id = config_id
        found == FirstIndex({k \in 1..Len(configs_data) :
                                HasId(configs_data[k])})
        i == Val(found)
        duplicate ==
            \E j \in 1..Len(configs_data) :
                /\ i # j
                /\ configs_data[j].user_id = updated_config.user_id
                /\ configs_data[j].stock_code = updated_config.stock_code
                /\ configs_data[j].is_active /\ updated_config.is_active
    IN  IF IsNone(found) THEN Answer(configs_data, 404)
        ELSE IF duplicate THEN Answer(configs_data, 400)
        ELSE Answer([configs_data EXCEPT
                        ![i] = [updated_config EXCEPT !.id = config_id]], 200)

\* DELETE /trading-configs/{config_id}
delete_trading_config(configs_data, config_id) ==
    LET HasId(config) == config.id = config_id
        found == FirstIndex({k \in 1..Len(configs_data) :
                                HasId(configs_data[k])})
    IN  IF IsNone(found) THEN Answer(configs_data, 404)
        ELSE Answer(Pop(configs_data, Val(found)), 200)

\* POST /trading-configs/{config_id}/toggle: flip is_active of the config
toggle_trading_config(configs_data, config_id) ==
    LET HasId(config) == config.id = config_id
        found == FirstIndex({k \in 1..Len(configs_data) :
                                HasId(configs_data[k])})
    IN  IF IsNone(found) THEN Answer(configs_data, 404)
        ELSE Answer([configs_data EXCEPT ![Val(found)].is_active = ~@], 200)

\* the bot and the stock store stand still while the config store is used
ConfigStoreInit ==
    /\ config_file = << >>
    /\ trading_configs = load_configs(config_file)
    /\ trade_history = NoLedger
    /\ history_file = NoLedger
    /\ holdings = NoHoldings
    /\ pc = "ready"
    /\ idx = 1
    /\ clock = None
    /\ balance = None
    /\ evaluated = <<>>
    /\ events = <<>>
    /\ other = OnlyThis
    /\ probe = NoProbe
    /\ stocks_file = NoStocks
    /\ quote = None

BotUntouched ==
    UNCHANGED <<trading_configs, trade_history, history_file, holdings, pc, idx,
                clock, balance, evaluated, events, other, quote>>

Request(fn, id, body, status) ==
    [fn |-> fn, id |-> id, body |-> body, out |-> status]

post_trading_configs ==
    /\ get_next_id(config_file) <= MaxConfigId
    /\ \E config \in ConfigBodies :
          LET answer == create_or_update_trading_config(config_file, config)
          IN  /\ config_file' = answer.data
              /\ probe' = Request("create_or_update_trading_config", None,
                                  Some(config), answer.status)
    /\ BotUntouched
    /\ UNCHANGED stocks_file

put_trading_config ==
    /\ \E config_id \in ConfigIds, config \in ConfigBodies :
          LET answer == update_trading_config(config_file, config_id, config)
          IN  /\ config_file' = answer.data
              /\ probe' = Request("update_trading_config", Some(config_id),
                                  Some(config), answer.status)
    /\ BotUntouched
    /\ UNCHANGED stocks_file

delete_trading_config_by_id ==
    /\ \E config_id \in ConfigIds :
          LET answer == delete_trading_config(config_file, config_id)
          IN  /\ config_file' = answer.data
              /\ probe' = Request("delete_trading_config", Some(config_id),
                                  None, answer.status)
    /\ BotUntouched
    /\ UNCHANGED stocks_file

post_trading_config_toggle ==
    /\ \E config_id \in ConfigIds :
          LET answer == toggle_trading_config(config_file, config_id)
          IN  /\ config_file' = answer.data
              /\ probe' = Request("toggle_trading_config", Some(config_id),
                                  None, answer.status)
    /\ BotUntouched
    /\ UNCHANGED stocks_file

ConfigStoreNext ==
    \/ post_trading_configs
    \/ put_trading_config
    \/ delete_trading_config_by_id
    \/ post_trading_config_toggle

ConfigStoreSpec == ConfigStoreInit /\ [][ConfigStoreNext]_vars

(***************************************************************************)
(* The stock store of the API server (src/main.py): stocks.json as the     *)
(* endpoints read and rewrite it.  A stock is kept by its id, code and     *)
(* name; the other fields are carried like the name.                       *)
(***************************************************************************)
StockCodes == {"005930", "000660", "035420"}
StockNames == {"name", "renamed"}
\* ids that get_next_stock_id may hand out in a run
MaxStockId == 4
StockIds == 1..MaxStockId

\* Stock: the request body of POST and PUT, id not yet set
Stock(code, name) == [id |-> None, code |-> code, name |-> name]
StockBodies == { Stock(code, name) : code \in StockCodes, name \in StockNames }
\* initialize_sample_data: the stocks written when the server finds none
SampleStocks ==
    << [id |-> 1, code |-> "005930", name |-> "name"],
       [id |-> 2, code |-> "000660", name |-> "name"] >>

update_stock_unchecked(stocks_data, stock_id, updated_stock) ==
    LET found == CHOOSE i \in 1..Len(stocks_data) : stocks_data[i].id = stock_id
    IN  IF \A i \in 1..Len(stocks_data) : stocks_data[i].id # stock_id
        THEN Answer(stocks_data, 404)
        ELSE Answer([stocks_data EXCEPT
                        ![found] = [updated_stock EXCEPT !.id = stock_id]], 200)

\* POST /stocks: 400 when a stock has the code, else append under a new id
create_stock(stocks_data, stock) ==
    IF \E i \in 1..Len(stocks_data) : stocks_data[i].code = stock.code
    THEN Answer(stocks_data, 400)
    ELSE Answer(Append(stocks_data, [stock EXCEPT !.id = get_next_id(stocks_data)]),
                200)

\* PUT /stocks/{stock_id}: 400 when another stock has the code of the body,
\* 404 for an unknown id
update_stock(stocks_data, stock_id, updated_stock) ==
    LET HasId(stock) == stock.id = stock_id
        found == FirstIndex({k \in 1..Len(stocks_data) :
                                HasId(stocks_data[k])})
        i == Val(found)
    IN  IF IsNone(found) THEN Answer(stocks_data, 404)
        ELSE IF \E j \in 1..Len(stocks_data) :
                    i # j /\ stocks_data[j].code = updated_stock.code
        THEN Answer(stocks_data, 400)
        ELSE Answer([stocks_data EXCEPT
                        ![i] = [updated_stock EXCEPT !.id = stock_id]], 200)

\* DELETE /stocks/{stock_id}
delete_stock(stocks_data, stock_id) ==
    LET HasId(stock) == stock.id = stock_id
        found == FirstIndex({k \in 1..Len(stocks_data) :
                                HasId(stocks_data[k])})
    IN  IF IsNone(found) THEN Answer(stocks_data, 404)
        ELSE Answer(Pop(stocks_data, Val(found)), 200)

\* the server starts on no file, or on one it can parse
StockStoreInit ==
    /\ config_file = << >>
    /\ trading_configs = load_configs(config_file)
    /\ trade_history = NoLedger
    /\ history_file = NoLedger
    /\ holdings = NoHoldings
    /\ pc = "ready"
    /\ idx = 1
    /\ clock = None
    /\ balance = None
    /\ evaluated = <<>>
    /\ events = <<>>
    /\ other = OnlyThis
    /\ probe = NoProbe
    /\ stocks_file = NoStocks
    /\ quote = None

\* the server is started as a script: sample stocks for an empty store
initialize_sample_data ==
    /\ stocks_file' = IF stocks_file = << >> THEN SampleStocks ELSE stocks_file
    /\ probe' = Request("initialize_sample_data", None, None, 200)
    /\ BotUntouched
    /\ UNCHANGED config_file

post_stocks ==
    /\ \E stock \in StockBodies :
          LET answer == create_stock(stocks_file, stock)
          IN  /\ answer.status = 200 => get_next_id(stocks_file) <= MaxStockId
              /\ stocks_file' = answer.data
              /\ probe' = Request("create_stock", None, Some(stock), answer.status)
    /\ BotUntouched
    /\ UNCHANGED config_file

put_stock ==
    /\ \E stock_id \in StockIds, stock \in StockBodies :
          LET answer == update_stock(stocks_file, stock_id, stock)
          IN  /\ stocks_file' = answer.data
              /\ probe' = Request("update_stock", Some(stock_id), Some(stock),
                                  answer.status)
    /\ BotUntouched
    /\ UNCHANGED config_file

delete_stock_by_id ==
    /\ \E stock_id \in StockIds :
          LET answer == delete_stock(stocks_file, stock_id)
          IN  /\ stocks_file' = answer.data
              /\ probe' = Request("delete_stock", Some(stock_id), None,
                                  answer.status)
    /\ BotUntouched
    /\ UNCHANGED config_file

StockStoreNext ==
    \/ initialize_sample_data
    \/ post_stocks
    \/ put_stock
    \/ delete_stock_by_id

StockStoreSpec == StockStoreInit /\ [][StockStoreNext]_vars

(***************************************************************************)
(* Cron invocations on a price that never falls.  The file holds one       *)
(* config of the shape the API test submits (src/test_api.py): count n,    *)
(* n thresholds, n + 1 equal weights; its exits are out of reach, the      *)
(* equity is constant and every order is filled.                           *)
(***************************************************************************)
StrPlus20 == <<"+", "2", "0">>
StrThree == <<"3">>
\* quotes 90, 100, ... in steps of 10
MaxRise == 4
RisingQuotes == {90 + 10 * k : k \in 0..MaxRise}
RisingBalance == Some(100000)
RisingAtr == Some(10)

TestShape(mode, n) ==
    LET entries == IF mode = "manual" THEN <<StrPlus5, StrPlus10, StrPlus20>>
                   ELSE <<StrOne, StrTwo, StrThree>>
        positions == [i \in 1..(n + 1) |-> 25]
    IN  IF mode = "manual"
        THEN WithStops(ManualConfig("005930", SubSeq(entries, 1, n), positions, n),
                       50, 1000)
        ELSE WithStops(TurtleConfig("005930", SubSeq(entries, 1, n), positions, n),
                       50, 1000)
RisingConfigs == { TestShape(mode, n) : mode \in TradingModes, n \in 1..3 }

RisingInit ==
    /\ config_file \in { <<config>> : config \in RisingConfigs }
    /\ trading_configs = load_configs(config_file)
    /\ trade_history = NoLedger
    /\ history_file = NoLedger
    /\ holdings = NoHoldings
    /\ pc = "ready"
    /\ idx = 1
    /\ clock = None
    /\ balance = None
    /\ evaluated = <<>>
    /\ events = <<>>
    /\ other = OnlyThis
    /\ probe = NoProbe
    /\ stocks_file = NoStocks
    /\ quote = Some(90)

\* the feed quotes the next higher price; no invocation has seen it yet
quote_rises ==
    /\ Val(quote) + 10 \in RisingQuotes
    /\ quote' = Some(Val(quote) + 10)
    /\ pc' = "ready"
    /\ UNCHANGED <<config_file, trading_configs, trade_history, history_file,
                   holdings, idx, clock, balance, evaluated, events, other,
                   probe, stocks_file>>

\* one invocation by cron during market hours: main loads the file and the
\* ledger, run_trading_cycle runs the loop body of the config on the quote
invocation_on_quote ==
    /\ \E telegram \in BOOLEAN :
          LET in == Inputs(quote, RisingAtr, quote, RisingAtr, RisingBalance,
                           quote, "ok", telegram)
              st == evaluate_config(
                        [trade_history |-> load_trade_history(history_file),
                         history_file |-> history_file,
                         holdings |-> holdings,
                         events |-> <<>>],
                        load_configs(config_file)[1], in)
          IN  /\ trade_history' = st.trade_history
              /\ history_file' = st.history_file
              /\ holdings' = st.holdings
              /\ events' = st.events
    /\ trading_configs' = load_configs(config_file)
    /\ pc' = "done"
    /\ idx' = 2
    /\ clock' = Some([weekday |-> 4, time |-> 900])
    /\ balance' = RisingBalance
    /\ evaluated' = <<1>>
    /\ UNCHANGED <<config_file, other, probe, stocks_file, quote>>

RisingNext ==
    \/ quote_rises
    \/ invocation_on_quote

RisingSpec == RisingInit /\ [][RisingNext]_vars

(***************************************************************************)
(* Properties.  events is the trace of the loop body that ran last, for    *)
(* the config trading_configs[Last(evaluated)].                            *)
(***************************************************************************)
Happened(trace, name) == \E k \in 1..Len(trace) : trace[k].ev = name
HappenedWith(trace, name, results) ==
    \E k \in 1..Len(trace) : trace[k].ev = name /\ trace[k].res \in results
Count(trace, names) == Cardinality({k \in 1..Len(trace) : trace[k].ev \in names})
ExitTriggered(trace) ==
    \E k \in 1..Len(trace) : trace[k].ev = "exit_check" /\ trace[k].res # "none"
LastConfig == trading_configs[evaluated[Len(evaluated)]]
LedgerKeeps(th, stock_code) == stock_code \in DOMAIN th

\* C1: when the exit check of a config triggers, its loop body sends a market
\* sell and runs neither the entry/pyramiding check nor a buy, whatever the
\* gateway answers to the sell.
C1_ExitTakesPriority ==
    ExitTriggered(events) =>
        /\ Happened(events, "sell_order")
        /\ ~Happened(events, "entry_check")
        /\ ~Happened(events, "buy_order")

\* C1 witness: an exit triggered and the gateway rejected the sell.
C1_Witness ==
    /\ ExitTriggered(events)
    /\ HappenedWith(events, "sell_order", {"rejected"})

\* the single active config of a stock, for the stocks that have one
ConfigsOf(stock_code) ==
    {k \in 1..Len(trading_configs) : trading_configs[k].stock_code = stock_code}

\* C2: every ledger record has 1 <= entry_count <= pyramiding_count + 1 of
\* the stock's active config.
C2_EntryCountInRange ==
    \A s \in DOMAIN trade_history :
        \A k \in ConfigsOf(s) :
            /\ 1 <= trade_history[s].entry_count
            /\ trade_history[s].entry_count
                  <= trading_configs[k].pyramiding_count + 1

\* C2 witness: a record that has reached pyramiding_count + 1 entries, for a
\* config that pyramids.
C2_Witness ==
    \E s \in DOMAIN trade_history :
        \E k \in ConfigsOf(s) :
            /\ trading_configs[k].pyramiding_count >= 1
            /\ trade_history[s].entry_count
                  = trading_configs[k].pyramiding_count + 1

\* C3 (as claimed): once the gateway has reported the full sell as
\* successful, the record of the stock is gone, in memory and in the file,
\* when the loop body is over.
C3_SoldImpliesCleared ==
    (evaluated # <<>> /\ HappenedWith(events, "sell_order", {"ok"})) =>
        /\ ~LedgerKeeps(trade_history, LastConfig.stock_code)
        /\ ~LedgerKeeps(history_file, LastConfig.stock_code)

\* C3 counterexample state: the sell was filled, the quote read after it was
\* missing, and the record is still in the ledger.
C3_SoldNotCleared ==
    /\ evaluated # <<>>
    /\ HappenedWith(events, "sell_order", {"ok"})
    /\ LedgerKeeps(trade_history, LastConfig.stock_code)

\* a loop body ran in this step, for the config at idx
IsStep == pc = "loop" /\ idx <= Len(trading_configs) /\ evaluated' = Append(evaluated, idx)
StepStock == trading_configs[idx].stock_code
EntriesOf(th, stock_code) ==
    IF stock_code \in DOMAIN th THEN th[stock_code].entries ELSE <<>>

\* C4: a buy that the gateway reports as successful appends exactly one entry
\* (a quoted price, the ordered quantity, the tranche label of the count read
\* before) to the stock's record, creating it if absent, so entry_count grows
\* by one; in every other step no entry_count grows.
C4_BuyAppendsOneEntry ==
    [][\A s \in Stocks :
          LET before == get_entry_count(trade_history, s)
              after == get_entry_count(trade_history', s)
              bought == IsStep /\ StepStock = s
                        /\ HappenedWith(events', "buy_order", {"ok"})
          IN  IF bought
              THEN /\ s \in DOMAIN trade_history'
                   /\ after = before + 1
                   /\ \E p \in Prices, k \in 1..Len(events') :
                         /\ events'[k].ev = "buy_order"
                         /\ EntriesOf(trade_history', s)
                              = Append(EntriesOf(trade_history, s),
                                       [price |-> p, quantity |-> events'[k].qty,
                                        type |-> EntryLabel(before)])
              ELSE after <= before]_vars

\* C4 witness: a successful buy has just added a second entry to a record.
C4_Witness ==
    /\ evaluated # <<>>
    /\ HappenedWith(events, "buy_order", {"ok"})
    /\ get_entry_count(trade_history, LastConfig.stock_code) = 2

\* C5: when the gateway rejects an order (answers failure or raises), the
\* ledger, in memory and in the file, is what it was before the loop body,
\* and an error alert is handed to the notification channel.
C5_RejectedOrderKeepsLedger ==
    [][(IsStep /\ \/ HappenedWith(events', "buy_order", {"rejected", "raised"})
                  \/ HappenedWith(events', "sell_order", {"rejected", "raised"}))
        => /\ trade_history' = trade_history
           /\ history_file' = history_file
           /\ Happened(events', "error_alert")
           /\ ~Happened(events', "trade_alert")]_vars

\* C5 witness: a buy that raised, for a stock that has a ledger record.
C5_Witness ==
    /\ evaluated # <<>>
    /\ HappenedWith(events, "buy_order", {"raised"})
    /\ LedgerKeeps(trade_history, LastConfig.stock_code)

NoRepeats(seq) == \A i, j \in 1..Len(seq) : seq[i] = seq[j] => i = j

\* C6: one loop body sends at most one order request to the gateway, and no
\* config has two loop bodies in one cycle.
C6_OneOrderPerConfig ==
    /\ Count(events, {"buy_order", "sell_order"}) <= 1
    /\ NoRepeats(evaluated)

\* C6 witness: the second config of a cycle had its sell rejected, and that
\* was its only request.
C6_Witness ==
    /\ Len(evaluated) = 2
    /\ HappenedWith(events, "sell_order", {"rejected", "raised"})
    /\ Count(events, {"buy_order", "sell_order"}) = 1

\* the claim's own reading of the gate
Closed(now) == now.weekday \in {5, 6} \/ now.time < 900 \/ now.time > 1530
NoEquity(bal) == IsNone(bal) \/ Val(bal) <= 0
Passed == clock # None /\ ~Closed(Val(clock)) /\ ~NoEquity(balance)
UpTo(n) == [i \in 1..n |-> i]

\* C7: in a cycle that passed the market and equity checks, the configs
\* evaluated so far are 1, 2, ... in list order, each once, none skipped, and
\* the cycle ends only after the last one.
C7_EveryConfigOnceInOrder ==
    Passed =>
        /\ pc \in {"loop", "done"}
        /\ idx <= Len(trading_configs) + 1
        /\ evaluated = UpTo(idx - 1)
        /\ pc = "done" => evaluated = UpTo(Len(trading_configs))

\* C7 witness: the first config raised inside its loop body and the cycle
\* completed with the second one evaluated after it.
C7_Witness ==
    /\ Passed
    /\ pc = "done"
    /\ evaluated = <<1, 2>>
    /\ IsNone(trading_configs[1].stock_name)
    /\ Happened(events, "exit_check")

RECURSIVE QuantityUpTo(_, _)
QuantityUpTo(entries, k) ==
    IF k = 0 THEN 0 ELSE entries[k].quantity + QuantityUpTo(entries, k - 1)
RECURSIVE CostUpTo(_, _)
CostUpTo(entries, k) ==
    IF k = 0 THEN 0
    ELSE entries[k].price * entries[k].quantity + CostUpTo(entries, k - 1)
Consistent(rec) ==
    LET quantity == QuantityUpTo(rec.entries, Len(rec.entries))
        amount == CostUpTo(rec.entries, Len(rec.entries))
    IN  /\ rec.total_quantity = quantity
        /\ rec.entry_count = Len(rec.entries)
        /\ quantity > 0
        /\ rec.avg_price.d > 0
        /\ rec.avg_price.n * quantity = amount * rec.avg_price.d

\* C9: every ledger record, in memory and in the file, has total_quantity =
\* the sum of its entries' quantities, entry_count = the number of entries and
\* avg_price = sum(price * quantity) / total_quantity.
C9_LedgerRecordConsistent ==
    /\ \A s \in DOMAIN trade_history : Consistent(trade_history[s])
    /\ \A s \in DOMAIN history_file : Consistent(history_file[s])

\* C9 witness: a record of two entries bought at different prices.
C9_Witness ==
    \E s \in DOMAIN trade_history :
        /\ trade_history[s].entry_count = 2
        /\ trade_history[s].entries[1].price # trade_history[s].entries[2].price

LookupsDefault(th, stock_code) ==
    /\ get_average_price(th, stock_code) = None
    /\ get_last_entry_price(th, stock_code) = None
    /\ get_entry_count(th, stock_code) = 0
\* the loop body that ran last sold the position and reset the record
JustCleared ==
    /\ evaluated # <<>>
    /\ HappenedWith(events, "sell_order", {"ok"})
    /\ Happened(events, "trade_alert")

\* C10: for a stock that was never bought, and for a stock whose record was
\* just cleared after a full exit, get_average_price and get_last_entry_price
\* return none and get_entry_count returns 0, on the in-memory ledger and on
\* the ledger a new invocation loads from the file.
C10_LookupsDefaultWithoutRecord ==
    /\ JustCleared =>
          /\ LookupsDefault(trade_history, LastConfig.stock_code)
          /\ LookupsDefault(load_trade_history(history_file), LastConfig.stock_code)
    /\ \A s \in Stocks :
          (ConfigsOf(s) = {} \/ \A k \in ConfigsOf(s) : IsNone(trading_configs[k].stock_name))
             => LookupsDefault(trade_history, s)

\* C10 witness: a position built from two buys was sold and its record reset.
C10_Witness ==
    /\ JustCleared
    /\ \E k \in 1..Len(events) : events[k].ev = "sell_order" /\ events[k].qty = 3

Started == {p \in DOMAIN other : other[p].pc # "absent"}
\* the ledger file accounts for every share held at the brokerage
FileCoversHoldings ==
    \A s \in Stocks :
        holdings[s].amt > 0 =>
            /\ s \in DOMAIN history_file
            /\ history_file[s].total_quantity = holdings[s].amt

\* C12: nothing but the order of the file writes protects the ledger file.
\* The file always holds the whole in-memory ledger of the invocation that
\* wrote or loaded it last; while exactly one invocation has been started it
\* is that invocation's ledger and it covers every held position.  (The
\* witness is the interleaving of two invocations in which an entry written
\* by one of them is gone from the file.)
C12_WholeFileOfLastWriter ==
    /\ Started # {} => \E p \in Started : history_file = other[p].trade_history
    /\ Cardinality(Started) = 1 =>
          /\ \A p \in Started : history_file = other[p].trade_history
          /\ FileCoversHoldings

\* C12 witness: both invocations have ended; one of them bought a stock and
\* wrote its entry, the stock is still held, and the file has no record of it.
C12_Witness ==
    /\ \A p \in Invocations : other[p].pc = "done"
    /\ \E s \in Stocks, p \in Invocations :
          /\ holdings[s].amt > 0
          /\ s \in DOMAIN other[p].trade_history
          /\ other[p].trade_history[s].total_quantity = holdings[s].amt
          /\ s \notin DOMAIN history_file

\* the last call was check_entry_conditions for a stock of which the
\* brokerage reports no holding
FirstEntryCall ==
    /\ probe.fn = "check_entry_conditions"
    /\ probe.holdings[probe.config.stock_code].amt = 0

\* C13: for a stock with no held position check_entry_conditions signals the
\* first entry exactly when entry_point > 0 and the current price is at or
\* above entry_point; the answer is a function of this call's price alone,
\* whatever the ledger holds, and a price that is not available is no entry.
C13_FirstEntryAtOrAboveEntryPoint ==
    FirstEntryCall =>
        probe.out = ( /\ ~IsNone(probe.price)
                      /\ probe.config.entry_point > 0
                      /\ Val(probe.price) >= probe.config.entry_point )

\* C13 witness: entry_point 75000 and a price of exactly 75000 give an entry.
C13_Witness ==
    /\ FirstEntryCall
    /\ probe.config.entry_point = 75000
    /\ probe.price = Some(75000)
    /\ probe.out

\* the cases in which the next pyramiding step of a config cannot be read:
\* more entries than pyramiding_count, no item at index entry_count, a blank
\* item, an item with a character that no number has
NotANumber(str) ==
    \E k \in 1..Len(str) : ~(IsDigit(str[k]) \/ IsSpace(str[k]) \/ str[k] \in {"+", "-"})
Unreadable(config, th) ==
    LET n == get_entry_count(th, config.stock_code)
        entries == config.pyramiding_entries
    IN  \/ n > config.pyramiding_count
        \/ n >= Len(entries)
        \/ Strip(entries[n + 1]) = <<>>
        \/ NotANumber(entries[n + 1])
\* the last call was a loop body that found a holding, no exit, and went on
\* to the entry check
PyramidingBody ==
    /\ probe.fn = "evaluate_config"
    /\ probe.holdings[probe.config.stock_code].amt > 0
    /\ Happened(probe.out.events, "entry_check")

\* C14: check_pyramiding_conditions returns no-trigger whenever the ledger's
\* entry_count exceeds pyramiding_count, or index entry_count is outside
\* pyramiding_entries, or the item at that index is blank or not a number;
\* a loop body that reaches the check in such a case sends no buy order and
\* leaves the ledger and its file as they were.
C14_UnreadableStepNeverBuys ==
    /\ (probe.fn = "check_pyramiding_conditions"
          /\ Unreadable(probe.config, probe.trade_history))
        => ~probe.out
    /\ (PyramidingBody /\ Unreadable(probe.config, probe.trade_history))
        => /\ HappenedWith(probe.out.events, "entry_check", {"none"})
           /\ ~Happened(probe.out.events, "buy_order")
           /\ probe.out.trade_history = probe.trade_history
           /\ probe.out.history_file = probe.history_file

\* C14 witness: a loop body with one recorded entry met an item that is not
\* a number at a price far above the entry point, and did not buy.
C14_Witness ==
    /\ PyramidingBody
    /\ get_entry_count(probe.trade_history, probe.config.stock_code) = 1
    /\ probe.config.pyramiding_entries = <<StrPlus5, StrBad>>
    /\ probe.in.entry_price = Some(110)
    /\ ~Happened(probe.out.events, "buy_order")

\* what the items of the sampled pyramiding_entries lists say
Percent(str) ==
    CASE str = StrPlus5 -> 5
      [] str = StrFive -> 5
      [] str = StrPlus10 -> 10
      [] str = StrOne -> 1
      [] str = StrTwo -> 2
\* the last call was check_pyramiding_conditions on a config of the given
\* mode whose next step can be read
ReadableCall(mode) ==
    /\ probe.fn = "check_pyramiding_conditions"
    /\ probe.config.trading_mode = mode
    /\ probe.config.pyramiding_count > 0
    /\ ~Unreadable(probe.config, probe.trade_history)
NextItem ==
    probe.config.pyramiding_entries[
        get_entry_count(probe.trade_history, probe.config.stock_code) + 1]

\* C15: in manual mode the pyramiding check triggers exactly when
\* (current_price - entry_point) / entry_point * 100 >= t, where t is the
\* percentage of pyramiding_entries[entry_count]: the base is the config's
\* entry_point, never the ledger's average price or last fill price.
C15_ManualStepFromEntryPoint ==
    ReadableCall("manual") =>
        probe.out = ( (probe.price - probe.config.entry_point) * 100
                         >= Percent(NextItem) * probe.config.entry_point )

\* C15 witness: the only recorded fill is at 110, the entry point is 100 and
\* the item is "+10": a price of 110 triggers, though it is no gain over the
\* average price or the last fill.
C15_Witness ==
    /\ ReadableCall("manual")
    /\ get_entry_count(probe.trade_history, probe.config.stock_code) = 1
    /\ FracEq(Val(get_average_price(probe.trade_history, probe.config.stock_code)),
              FracOfInt(110))
    /\ NextItem = StrPlus10
    /\ probe.price = 110
    /\ probe.out

\* C16: in turtle mode the pyramiding check triggers exactly when the ATR is
\* available and current_price >= entry_point + ATR * m, where m is the
\* multiplier of pyramiding_entries[entry_count]; without an ATR it never
\* triggers, whatever the price.
C16_TurtleStepByAtrMultiple ==
    ReadableCall("turtle") =>
        probe.out = ( /\ ~IsNone(probe.atr)
                      /\ probe.price >= probe.config.entry_point
                                           + Val(probe.atr) * Percent(NextItem) )

\* C16 witness: entry point 100, ATR 4 and the item "2" trigger at 108.
C16_Witness ==
    /\ ReadableCall("turtle")
    /\ probe.atr = Some(4)
    /\ NextItem = StrTwo
    /\ probe.price = 108
    /\ probe.out

\* the last call was check_exit_conditions on a config of the given mode
ExitCall(mode) ==
    /\ probe.fn = "check_exit_conditions"
    /\ probe.config.trading_mode = mode
\* what the brokerage reported for the stock of that call
Amt == probe.holdings[probe.config.stock_code].amt
Cost == probe.holdings[probe.config.stock_code].cost
\* the call answered "no exit"; the call answered "exit" with that reason
Stays == ~probe.out.should_exit
Leaves(why) == probe.out.should_exit /\ probe.out.reason = why

\* C17: in manual mode, with a held position of average purchase price A
\* (A = Cost / Amt) and profit = (price - A) / A * 100, check_exit_conditions
\* returns a stop-loss exit exactly when profit <= -stop_loss, else a
\* take-profit exit exactly when profit >= take_profit, else no exit; with
\* no held position it never returns an exit.
C17_ManualExitByPercent ==
    ExitCall("manual") =>
        IF Amt <= 0 \/ IsNone(probe.price) THEN Stays
        ELSE LET profit100 == (Val(probe.price) * Amt - Cost) * 100
             IN  IF profit100 <= (0 - probe.config.stop_loss) * Cost
                 THEN Leaves("stop_loss")
                 ELSE IF profit100 >= probe.config.take_profit * Cost
                 THEN Leaves("take_profit")
                 ELSE Stays

\* C17 witness: stop_loss 5 and take_profit 20 at an average price of 1000:
\* the quote 1201 (a profit of 20.1 percent) is a take-profit exit.
C17_Witness ==
    /\ ExitCall("manual")
    /\ probe.config.stop_loss = 5 /\ probe.config.take_profit = 20
    /\ Amt = 1 /\ Cost = 1000
    /\ probe.price = Some(1201)
    /\ Leaves("take_profit")

\* C18: in turtle mode, with a held position of average purchase price A and
\* an available ATR, check_exit_conditions returns an exit exactly when
\* price <= A - ATR * stop_loss (a stop) or price >= A + ATR * take_profit
\* (a target); without an ATR, and with no held position, it returns no exit.
C18_TurtleExitByAtrMultiple ==
    ExitCall("turtle") =>
        IF Amt <= 0 \/ IsNone(probe.price) \/ IsNone(probe.atr) THEN Stays
        ELSE LET gain == Val(probe.price) * Amt - Cost
                 range == Val(probe.atr) * Amt
             IN  IF gain <= 0 - range * probe.config.stop_loss
                 THEN Leaves("atr_stop_loss")
                 ELSE IF gain >= range * probe.config.take_profit
                 THEN Leaves("atr_take_profit")
                 ELSE Stays

\* C18 witness: average price 100, ATR 4 and stop_loss 2 put the stop at 92;
\* the quote 91 is a stop exit.
C18_Witness ==
    /\ ExitCall("turtle")
    /\ Amt = 10 /\ Cost = 1000
    /\ probe.atr = Some(4)
    /\ probe.config.stop_loss = 2
    /\ probe.price = Some(91)
    /\ Leaves("atr_stop_loss")

\* the last call was a loop body of a turtle config whose stock is held,
\* during which get_atr returned nothing
TurtleBodyWithoutAtr ==
    /\ probe.fn = "evaluate_config"
    /\ probe.config.trading_mode = "turtle"
    /\ probe.holdings[probe.config.stock_code].amt > 0
    /\ IsNone(probe.in.exit_atr)
    /\ IsNone(probe.in.entry_atr)

\* C19: when the ATR of a held turtle-mode stock is unavailable, the loop
\* body sends neither a sell nor a buy order for it, leaves the ledger, its
\* file and the holdings unchanged, sends no alert, and ends without an
\* exception, so that the for-loop goes on with the next config.
C19_NoAtrNoTradeNoAlert ==
    TurtleBodyWithoutAtr =>
        /\ Count(probe.out.events,
                 {"sell_order", "buy_order", "trade_alert", "error_alert"}) = 0
        /\ probe.out.trade_history = probe.trade_history
        /\ probe.out.history_file = probe.history_file
        /\ probe.out.holdings = probe.holdings
        /\ ~Raised(probe.out.events)
        /\ after_body(1, 2, Raised(probe.out.events)) = 2

\* C19 witness: the quote was available for both checks (90, then 110, with
\* the position bought at 100), the ATR for neither, and both checks
\* answered "none".
C19_Witness ==
    /\ TurtleBodyWithoutAtr
    /\ probe.in.exit_price = Some(90)
    /\ probe.in.entry_price = Some(110)
    /\ probe.config.pyramiding_entries = <<StrOne, StrTwo>>
    /\ get_entry_count(probe.trade_history, probe.config.stock_code) = 1
    /\ HappenedWith(probe.out.events, "exit_check", {"none"})
    /\ HappenedWith(probe.out.events, "entry_check", {"none"})

\* the last call was a loop body of a config whose stop_loss is 0
ZeroStopBody ==
    /\ probe.fn = "evaluate_config"
    /\ probe.config.stop_loss = 0

\* C20: with stop_loss equal to zero calculate_position_size yields no
\* amount (it returns 0) for every balance and max_loss, and the loop body
\* of that config sends no buy order and leaves the ledger and its file
\* unchanged, even when the entry check asks for an entry.
C20_ZeroStopLossNeverBuys ==
    ZeroStopBody =>
        /\ \A b \in Balances :
              calculate_position_size(probe.config, b) = FracZero
        /\ ~Happened(probe.out.events, "buy_order")
        /\ probe.out.trade_history = probe.trade_history
        /\ probe.out.history_file = probe.history_file

\* C20 witness: the price reached the entry point, the account had equity,
\* max_loss was 2, and the body still sent no buy order.
C20_Witness ==
    /\ ZeroStopBody
    /\ probe.config.max_loss = 2
    /\ HappenedWith(probe.out.events, "entry_check", {"enter"})
    /\ probe.in.balance = Funded
    /\ ~Happened(probe.out.events, "buy_order")

\* the last call was calculate_position_size with a stop_loss other than 0
\* and a balance to read
SizingCall ==
    /\ probe.fn = "calculate_position_size"
    /\ probe.config.stop_loss # 0
    /\ ~IsNone(probe.balance)
\* the last call was calculate_pyramiding_amounts
AllocationCall == probe.fn = "calculate_pyramiding_amounts"

\* C21: for stop_loss # 0 calculate_position_size returns
\* equity * max_loss / stop_loss: stop_loss percent of the returned amount is
\* max_loss percent of the equity.  Of the amount 20,000,000 (equity
\* 10,000,000, max_loss 10, stop_loss 5) the weights [25,25,25,25] with
\* pyramiding_count 3 make four tranches of 5,000,000.
C21_SizedSoThatStopCostsMaxLoss ==
    /\ SizingCall =>
          /\ probe.out.d > 0
          /\ probe.out.n * probe.config.stop_loss
                = Val(probe.balance) * probe.config.max_loss * probe.out.d
    /\ (AllocationCall /\ probe.config = EvenConfig
          /\ probe.total_amount = FracOfInt(20000000))
        => /\ Len(probe.out) = 4
           /\ \A i \in 1..4 : FracEq(probe.out[i], FracOfInt(5000000))

\* C21 witness: equity 10,000,000, max_loss 10 and stop_loss 5 give 20,000,000.
C21_Witness ==
    /\ SizingCall
    /\ probe.balance = Some(10000000)
    /\ probe.config.max_loss = 10
    /\ probe.config.stop_loss = 5
    /\ FracEq(probe.out, FracOfInt(20000000))

\* the sum of the numerators of the first k amounts
RECURSIVE NumeratorsUpTo(_, _)
NumeratorsUpTo(amounts, k) ==
    IF k = 0 THEN 0 ELSE amounts[k].n + NumeratorsUpTo(amounts, k - 1)
\* the amounts, fractions over one denominator, add up to the total
AddUpTo(amounts, total_amount) ==
    /\ amounts # <<>>
    /\ \A i \in 1..Len(amounts) : amounts[i].d = amounts[1].d /\ amounts[i].d > 0
    /\ NumeratorsUpTo(amounts, Len(amounts)) * total_amount.d
          = total_amount.n * amounts[1].d
\* the last call was calculate_pyramiding_amounts on a config that pyramids
\* and has weights
WeightedCall ==
    /\ AllocationCall
    /\ probe.config.pyramiding_count >= 1
    /\ probe.config.positions # <<>>

\* C22: for pyramiding_count >= 1 and a non-empty list of positive weights,
\* shorter or longer than pyramiding_count + 1 or of that length, the amounts
\* returned by calculate_pyramiding_amounts add up to total_amount.
C22_TranchesAddUpToTotal ==
    WeightedCall => AddUpTo(probe.out, probe.total_amount)

\* C22 witness: three weights with pyramiding_count 1: the total 1000 is
\* split into two tranches, the third weight aside.
C22_Witness ==
    /\ WeightedCall
    /\ probe.config.pyramiding_count = 1
    /\ probe.config.positions = <<50, 30, 20>>
    /\ probe.total_amount = FracOfInt(1000)
    /\ Len(probe.out) = 2
    /\ FracEq(probe.out[1], FracOfInt(625))

\* the last call was calculate_pyramiding_amounts on a config that does not
\* pyramid or has no weights
UnweightedCall ==
    /\ AllocationCall
    /\ (probe.config.pyramiding_count = 0 \/ probe.config.positions = <<>>)

\* C23: whenever pyramiding_count = 0 or positions is empty,
\* calculate_pyramiding_amounts returns the one-element list [total_amount],
\* for every total_amount.
C23_SingleTrancheWithoutPyramiding ==
    UnweightedCall => probe.out = <<probe.total_amount>>

\* C23 witness: pyramiding_count 0 with the weights [50, 50]: the total of
\* 1000 comes back whole.
C23_Witness ==
    /\ UnweightedCall
    /\ probe.config.positions = <<50, 50>>
    /\ probe.total_amount = FracOfInt(1000)
    /\ probe.out = <<FracOfInt(1000)>>

\* two configs agree on pyramiding_count and on the first
\* pyramiding_count + 1 weights
Prefix(config) ==
    SubSeq(config.positions, 1,
           Min(config.pyramiding_count + 1, Len(config.positions)))
AgreeOnPrefix(c1, c2) ==
    /\ c1.pyramiding_count = c2.pyramiding_count
    /\ Len(c1.positions) >= c1.pyramiding_count + 1
    /\ Len(c2.positions) >= c2.pyramiding_count + 1
    /\ Prefix(c1) = Prefix(c2)

\* C24: the amounts depend on the first pyramiding_count + 1 weights only:
\* every config that agrees with the config of the call on pyramiding_count
\* and on that prefix, whatever its later weights, gets the same amounts for
\* the same total_amount.
C24_LaterWeightsIgnored ==
    AllocationCall =>
        \A c \in AllocationConfigs :
            AgreeOnPrefix(probe.config, c) =>
                calculate_pyramiding_amounts(c, probe.total_amount) = probe.out

\* C24 witness: the weights [50, 30, 20] with pyramiding_count 1 (another
\* config has [50, 30, 40]) give the tranches 625 and 375 of 1000.
C24_Witness ==
    /\ AllocationCall
    /\ probe.config.pyramiding_count = 1
    /\ probe.config.positions = <<50, 30, 20>>
    /\ AgreeOnPrefix(probe.config, WeightedConfig(<<50, 30, 40>>, 1))
    /\ probe.total_amount = FracOfInt(1000)
    /\ FracEq(probe.out[2], FracOfInt(375))

\* the ledger's entry_count for the stock of the last call
CallCount == get_entry_count(probe.trade_history, probe.config.stock_code)

\* C25: get_current_entry_amount returns the amount at index entry_count
\* (0-based) of calculate_pyramiding_amounts when the list has that index,
\* and 0 for every entry_count > pyramiding_count; a loop body whose ledger
\* has entry_count > pyramiding_count sends no buy order.
C25_TrancheByEntryCount ==
    /\ probe.fn = "get_current_entry_amount" =>
          LET amounts == calculate_pyramiding_amounts(probe.config, probe.total_amount)
          IN  /\ CallCount < Len(amounts) => probe.out = amounts[CallCount + 1]
              /\ CallCount > probe.config.pyramiding_count => probe.out = FracZero
    /\ (probe.fn = "evaluate_config" /\ CallCount > probe.config.pyramiding_count)
        => ~Happened(probe.out.events, "buy_order")

\* C25 witness: the ledger has two entries with pyramiding_count 1, nothing
\* is held, the price is at the entry point and the account has equity: the
\* entry check asks for an entry and no buy order is sent.
C25_Witness ==
    /\ probe.fn = "evaluate_config"
    /\ probe.config.pyramiding_count = 1
    /\ CallCount = 2
    /\ probe.holdings[probe.config.stock_code].amt = 0
    /\ HappenedWith(probe.out.events, "entry_check", {"enter"})
    /\ probe.in.balance = Funded
    /\ ~Happened(probe.out.events, "buy_order")

\* the last call was a loop body; the tranche amount its entry branch
\* computes from the balance it read
BodyCall == probe.fn = "evaluate_config"
BodyTranche ==
    get_current_entry_amount(probe.config, probe.trade_history,
                             calculate_position_size(probe.config, probe.in.balance))
\* q = floor(amount / price), for a price above 0
IsFloorOf(q, amount, price) ==
    /\ q * price * amount.d <= amount.n
    /\ amount.n < (q + 1) * price * amount.d
\* the entry branch got as far as the share quantity, and it was 0
NoWholeShare ==
    /\ BodyCall
    /\ HappenedWith(probe.out.events, "entry_check", {"enter"})
    /\ FracPos(BodyTranche)
    /\ ~IsNone(probe.in.order_price)
    /\ IsFloorOf(0, BodyTranche, Val(probe.in.order_price))
\* every ledger entry is for one share or more
WholeShares(th) ==
    \A s \in DOMAIN th : \A k \in 1..Len(th[s].entries) : th[s].entries[k].quantity >= 1

\* C26: every buy request carries the quantity
\* floor(tranche amount / current price), which is 1 or more; when that
\* floor is 0 no order is sent and the ledger and its file are unchanged; no
\* ledger entry has a quantity below 1.
C26_BuyQuantityIsFloorAndPositive ==
    BodyCall =>
        /\ \A k \in 1..Len(probe.out.events) :
              probe.out.events[k].ev = "buy_order" =>
                  /\ probe.out.events[k].qty >= 1
                  /\ ~IsNone(probe.in.order_price)
                  /\ IsFloorOf(probe.out.events[k].qty, BodyTranche,
                               Val(probe.in.order_price))
        /\ NoWholeShare =>
              /\ ~Happened(probe.out.events, "buy_order")
              /\ probe.out.trade_history = probe.trade_history
              /\ probe.out.history_file = probe.history_file
        /\ WholeShares(probe.out.trade_history)

\* C26 witness: the first tranche of 80 buys no share at a price of 100: the
\* entry was asked for and nothing was ordered.
C26_Witness ==
    /\ NoWholeShare
    /\ probe.config = ThinConfig
    /\ FracEq(BodyTranche, FracOfInt(80))
    /\ probe.in.order_price = Some(100)
    /\ ~Happened(probe.out.events, "buy_order")

\* the last call could send a sell request: a loop body, or execute_sell_order
SellingCall == probe.fn \in {"evaluate_config", "execute_sell_order"}

\* C27: every sell request carries the whole quantity the brokerage reports
\* as held for the stock at that moment (Amt), whatever the ledger says, and
\* no sell request is sent when that quantity is 0 or less.
C27_SellsAllThatIsHeld ==
    SellingCall =>
        /\ \A k \in 1..Len(probe.out.events) :
              probe.out.events[k].ev = "sell_order" =>
                  probe.out.events[k].qty = Amt /\ Amt > 0
        /\ Amt <= 0 => ~Happened(probe.out.events, "sell_order")

\* C27 witness: the ledger records 4 shares, the brokerage reports 10, and
\* the sell request is for 10.
C27_Witness ==
    /\ probe.fn = "execute_sell_order"
    /\ probe.trade_history[probe.config.stock_code].total_quantity = 4
    /\ Amt = 10
    /\ \E k \in 1..Len(probe.out.events) :
          probe.out.events[k].ev = "sell_order" /\ probe.out.events[k].qty = 10

\* the notifications of a trace after position k
AlertsAfter(trace, k, names) ==
    Cardinality({j \in k + 1..Len(trace) : trace[j].ev \in names})
\* the order request at position k of the trace is followed by exactly one
\* notification, of the kind its result calls for
AnsweredOnce(trace, k) ==
    /\ AlertsAfter(trace, k, {"trade_alert", "error_alert"}) = 1
    /\ IF trace[k].res = "ok"
       THEN AlertsAfter(trace, k, {"trade_alert"}) = 1
       ELSE AlertsAfter(trace, k, {"error_alert"}) = 1

\* C28: every order request of a loop body is followed, within that body,
\* by exactly one notification: a trade alert when the order succeeded, an
\* error alert when it was rejected or raised.
C28_EveryOrderAnsweredOnce ==
    \A k \in 1..Len(events) :
        events[k].ev \in {"buy_order", "sell_order"} => AnsweredOnce(events, k)

\* a sell order succeeded and the body sent an error alert, no trade alert
C28_SoldWithErrorAlert ==
    /\ HappenedWith(events, "sell_order", {"ok"})
    /\ Happened(events, "error_alert")
    /\ ~Happened(events, "trade_alert")

\* the order requests of a trace, in order
Orders(trace) == SelectSeq(trace, LAMBDA e : e.ev \in {"buy_order", "sell_order"})
\* the loop body of the last call, run again on the same state and the same
\* prices, balance and gateway answer, with the other outcome of the
\* notification sends
OtherDelivery ==
    evaluate_config([trade_history |-> probe.trade_history,
                     history_file |-> probe.history_file,
                     holdings |-> probe.holdings,
                     events |-> <<>>],
                    probe.config,
                    [probe.in EXCEPT !.telegram = ~@])

\* C29: whether the notification sends of a loop body succeed or raise, the
\* body sends the same orders, leaves the same ledger, file and holdings,
\* and ends the same way, so the same configs are evaluated after it.
C29_DeliveryDoesNotChangeTrading ==
    BodyCall =>
        /\ Orders(OtherDelivery.events) = Orders(probe.out.events)
        /\ OtherDelivery.trade_history = probe.out.trade_history
        /\ OtherDelivery.history_file = probe.out.history_file
        /\ OtherDelivery.holdings = probe.out.holdings
        /\ Raised(OtherDelivery.events) = Raised(probe.out.events)
        /\ after_body(1, 2, Raised(OtherDelivery.events))
              = after_body(1, 2, Raised(probe.out.events))

\* C29 witness: a buy order succeeded, its trade alert could not be sent,
\* and the entry is in the ledger.
C29_Witness ==
    /\ BodyCall
    /\ HappenedWith(probe.out.events, "buy_order", {"ok"})
    /\ HappenedWith(probe.out.events, "trade_alert", {"failed"})
    /\ get_entry_count(probe.out.trade_history, probe.config.stock_code)
          = CallCount + 1

\* the last price read of a loop body that sold nothing returned nothing:
\* the read of execute_buy_order when the body got that far, else the read
\* of check_entry_conditions
PriceWentMissing ==
    /\ BodyCall
    /\ Happened(probe.out.events, "entry_check")
    /\ IF HappenedWith(probe.out.events, "entry_check", {"enter"})
          /\ FracPos(BodyTranche)
       THEN IsNone(probe.in.order_price)
       ELSE IsNone(probe.in.entry_price)

\* C30: when the current price is unavailable to a loop body (the feed
\* returns nothing or raises), the body sends no order, leaves the ledger
\* and its file unchanged, and sends no alert.
C30_NoPriceNoOrderNoAlert ==
    PriceWentMissing =>
        /\ Orders(probe.out.events) = <<>>
        /\ probe.out.trade_history = probe.trade_history
        /\ probe.out.history_file = probe.history_file
        /\ Count(probe.out.events, {"trade_alert", "error_alert"}) = 0

\* the price was there for check_entry_conditions and missing in
\* execute_buy_order: no order, and an error alert
C30_AlertForMissingPrice ==
    /\ PriceWentMissing
    /\ ~IsNone(probe.in.entry_price)
    /\ Orders(probe.out.events) = <<>>
    /\ Happened(probe.out.events, "error_alert")

\* the stored configs that are active for a user and a stock
ActiveFor(data, user_id, stock_code) ==
    { i \in 1..Len(data) : /\ data[i].user_id = user_id
                           /\ data[i].stock_code = stock_code
                           /\ data[i].is_active }

\* C31: after any sequence of config-store operations (create-or-update,
\* update, delete, toggle) the store holds at most one active config for
\* each pair of user and stock.
C31_AtMostOneActivePerPair ==
    \A user_id \in Users :
        Cardinality(ActiveFor(config_file, user_id, "005930")) <= 1

\* a toggle has just made a second config of the pair active
C31_ToggleMadeSecondActive ==
    /\ probe.fn = "toggle_trading_config"
    /\ probe.out = 200
    /\ ~C31_AtMostOneActivePerPair

\* the configs of the file that load_configs must drop, and the stocks that
\* only such configs name
Dropped(config) == "is_active" \notin DOMAIN config \/ ~config.is_active
DroppedStocks ==
    { s \in Stocks :
        /\ \E i \in 1..Len(config_file) :
              config_file[i].stock_code = s /\ Dropped(config_file[i])
        /\ \A i \in 1..Len(config_file) :
              config_file[i].stock_code = s => Dropped(config_file[i]) }

\* C32: the orchestrator evaluates only configs whose is_active flag is true
\* at load time: the loaded list holds no config whose flag is false or
\* missing, and for a stock that only such configs name no order is filled
\* and no ledger record exists, in memory or on file.
C32_OnlyActiveConfigsTrade ==
    /\ \A i \in 1..Len(trading_configs) :
          /\ ~Dropped(trading_configs[i])
          /\ \E j \in 1..Len(config_file) : config_file[j] = trading_configs[i]
    /\ \A i \in 1..Len(evaluated) : evaluated[i] \in 1..Len(trading_configs)
    /\ \A s \in DroppedStocks :
          /\ s \notin DOMAIN trade_history
          /\ s \notin DOMAIN history_file
          /\ holdings[s].amt = 0

\* a cycle over a file with a config flagged false and one without a flag
\* has traded the other stock and left theirs alone
C32_Witness ==
    /\ \E i, j \in 1..Len(config_file) :
          /\ "is_active" \notin DOMAIN config_file[i]
          /\ "is_active" \in DOMAIN config_file[j] /\ ~config_file[j].is_active
    /\ DroppedStocks # {}
    /\ pc = "done"
    /\ \E s \in Stocks : holdings[s].amt > 0

\* the first tranche of the config of the last call, for the balance read
FirstTranche ==
    calculate_pyramiding_amounts(
        probe.config, calculate_position_size(probe.config, probe.in.balance))[1]
\* a loop body on a flat position (the brokerage reports nothing held) with
\* equity, a valid sizing, a price at or above the entry point and a first
\* tranche worth a share or more
FlatEntryCall ==
    /\ BodyCall
    /\ StockAmt(probe.holdings, probe.config.stock_code) = 0
    /\ has_equity(probe.in.balance)
    /\ FracPos(calculate_position_size(probe.config, probe.in.balance))
    /\ probe.config.entry_point > 0
    /\ ~IsNone(probe.in.entry_price)
    /\ Val(probe.in.entry_price) >= probe.config.entry_point
    /\ ~IsNone(probe.in.order_price)
    /\ FracFloorDiv(FirstTranche, Val(probe.in.order_price)) >= 1
InitialBuy ==
    LET stock_code == probe.config.stock_code
        quantity == FracFloorDiv(FirstTranche, Val(probe.in.order_price))
        th == probe.out.trade_history
    IN  /\ Orders(probe.out.events)
              = <<Event("buy_order", quantity, probe.in.order)>>
        /\ probe.in.order = "ok" =>
              /\ stock_code \in DOMAIN th
              /\ th[stock_code].entry_count = 1
              /\ Len(th[stock_code].entries) = 1
              /\ th[stock_code].entries[1].type = EntryLabel(0)
              /\ th[stock_code].entries[1].quantity = quantity

\* C33: after a full exit of an instrument a new cycle of entries can begin:
\* the next loop body that finds the position flat, with equity, a valid
\* sizing and a price at or above the entry point, places a buy for tranche
\* 0 with the label "initial", and the resulting ledger record has
\* entry_count 1.
C33_NewCycleStartsAtInitial == FlatEntryCall => InitialBuy

\* the position was sold but its record stayed: the next entry buys the
\* second tranche as "pyramiding_1"
C33_EntryOnStaleRecord ==
    /\ FlatEntryCall
    /\ probe.config.stock_code \in DOMAIN probe.trade_history
    /\ probe.in.order = "ok"
    /\ probe.out.trade_history[probe.config.stock_code].entry_count = 2
    /\ probe.out.trade_history[probe.config.stock_code].entries[2].type
          = EntryLabel(1)

\* a loop body on a flat position without a ledger record starts a new cycle
C33_ClearedRecordStartsAtInitial ==
    FlatEntryCall /\ probe.config.stock_code \notin DOMAIN probe.trade_history
        => InitialBuy

\* the rows that the last loop body appended to the trade log
Rows(trace) == SelectSeq(trace, LAMBDA e : e.ev = "log_trade")
BoughtNow(trace) ==
    \E k \in 1..Len(trace) : trace[k].ev = "log_trade" /\ trace[k].res = "BUY"

\* C34: after every successful buy, the total_quantity written to the
\* audit-log row and sent in the trade alert equals the ledger's cumulative
\* total_quantity for the instrument, also when the tranches have different
\* share quantities.
C34_LoggedTotalIsLedgerTotal ==
    BoughtNow(events) =>
        \A k \in 1..Len(events) :
            /\ events[k].ev = "log_trade" =>
                  events[k].total_quantity
                      = trade_history[LastConfig.stock_code].total_quantity
            /\ events[k].ev = "trade_alert" =>
                  events[k].qty = trade_history[LastConfig.stock_code].total_quantity

\* a second tranche of fewer shares than the first: the row states twice
\* the last quantity, the ledger holds the sum
C34_ShortcutUndercounts ==
    /\ BoughtNow(events)
    /\ trade_history[LastConfig.stock_code].entry_count = 2
    /\ trade_history[LastConfig.stock_code].total_quantity = 3
    /\ Rows(events) = <<Row("BUY", 110, 1, 2)>>
    /\ HappenedWith(events, "trade_alert", {"sent"})

\* the shortcut is right when every entry of the record has the quantity of
\* the last one
C34_RightForEqualTranches ==
    BoughtNow(events) /\ ~C34_LoggedTotalIsLedgerTotal =>
        \E k \in 1..Len(trade_history[LastConfig.stock_code].entries) :
            trade_history[LastConfig.stock_code].entries[k].quantity
                # Rows(events)[1].qty

\* the ledger has a record for exactly the stocks the brokerage reports held
LedgerMatchesHoldings(th, hold) ==
    \A s \in Stocks : s \in DOMAIN th <=> StockAmt(hold, s) > 0

\* C35: at every config boundary, with orders that fill at once and nobody
\* else trading the account, a ledger record exists for an instrument if and
\* only if the brokerage reports a held quantity above 0 for it, so the
\* flat-or-holding decision of check_entry_conditions agrees with the
\* ledger's entry_count being 0 or at least 1.
C35_RecordIffHeld == LedgerMatchesHoldings(trade_history, holdings)

\* a sold position whose record stayed: held 0, entry_count 1 or more
C35_RecordOfSoldPosition ==
    /\ pc = "loop"
    /\ HappenedWith(events, "sell_order", {"ok"})
    /\ StockAmt(holdings, LastConfig.stock_code) = 0
    /\ get_entry_count(trade_history, LastConfig.stock_code) >= 1

\* whatever is held has a record
C35_HeldHasRecord ==
    \A s \in Stocks : StockAmt(holdings, s) > 0 => s \in DOMAIN trade_history

\* the ledger and the brokerage only part in a body whose sell was filled
\* and answered by an error alert
C35_PartOnlyOnFailedLookup ==
    [][LedgerMatchesHoldings(trade_history, holdings)
         /\ ~LedgerMatchesHoldings(trade_history', holdings')
       => /\ HappenedWith(events', "sell_order", {"ok"})
          /\ Happened(events', "error_alert")]_vars

\* the entry count of the one config of the file
RisingCount == get_entry_count(trade_history, config_file[1].stock_code)

\* an invocation has run on the highest quote, which is above every
\* threshold, and it bought nothing
RisingSettled ==
    /\ quote = Some(90 + 10 * MaxRise)
    /\ pc = "done"
    /\ ~Happened(events, "buy_order")

\* C36: for a config with pyramiding_count = n >= 1, n thresholds and n + 1
\* weights, every one of the n + 1 configured tranches is bought when the
\* price keeps rising: the invocations stop buying at the highest price
\* only in a state with entry_count = n + 1.
C36_EveryTrancheBought ==
    RisingSettled => RisingCount = config_file[1].pyramiding_count + 1

\* the price is at its highest, above every threshold, and the ledger has
\* n entries for the n + 1 tranches of the test's config
C36_StoppedBeforeLastTranche ==
    /\ RisingSettled
    /\ config_file[1].pyramiding_count = 3
    /\ Len(config_file[1].positions) = 4
    /\ RisingCount = 3
    /\ ~check_pyramiding_conditions(config_file[1], trade_history, Val(quote),
                                    RisingAtr)

\* with n thresholds the entry count never passes n
C36_CountStopsAtThresholds ==
    RisingCount <= Len(config_file[1].pyramiding_entries)

\* the entries of a record carry the labels of their positions, from 0
LabelledByPosition(th) ==
    \A s \in DOMAIN th :
        \A k \in 1..Len(th[s].entries) : th[s].entries[k].type = EntryLabel(k - 1)

\* C37: in every ledger record the entry at position 0 has the label
\* "initial" and the entry at position i >= 1 the label "pyramiding_i"; the
\* label of a buy is derived from the entry_count read before the ledger
\* is updated.
C37_LabelFollowsPosition ==
    /\ LabelledByPosition(trade_history)
    /\ LabelledByPosition(history_file)
    /\ BoughtNow(events) =>
          LET record == trade_history[LastConfig.stock_code]
          IN  record.entries[record.entry_count].type
                  = EntryLabel(record.entry_count - 1)

\* a record with an initial entry and a pyramiding_1 entry, just bought
C37_Witness ==
    /\ BoughtNow(events)
    /\ Len(trade_history[LastConfig.stock_code].entries) = 2
    /\ trade_history[LastConfig.stock_code].entries[1].type.kind = "initial"
    /\ trade_history[LastConfig.stock_code].entries[2].type
          = [kind |-> "pyramiding", n |-> 1]

\* the loaded config of a stock, and the position it is allowed for the
\* one positive equity of the balance feed
ConfigOf(stock_code) ==
    CHOOSE config \in {trading_configs[i] : i \in 1..Len(trading_configs)} :
        config.stock_code = stock_code
TotalAmountOf(stock_code) == calculate_position_size(ConfigOf(stock_code), Funded)

\* C38: with equity and config held constant, each tranche index is bought
\* at most once in a ledger record: the entry at position k cost no more
\* than tranche k, so the amounts of the buys recorded in one record add up
\* to at most total_amount = equity * max_loss / stop_loss.
C38_RecordWithinTotalAmount ==
    \A s \in DOMAIN trade_history :
        LET entries == trade_history[s].entries
            amounts == calculate_pyramiding_amounts(ConfigOf(s), TotalAmountOf(s))
        IN  /\ Len(entries) <= Len(amounts)
            /\ \A k \in 1..Len(entries) :
                  FracLe(FracOfInt(entries[k].price * entries[k].quantity),
                         amounts[k])
            /\ FracLe(FracOfInt(SumAmount(entries)), TotalAmountOf(s))

\* both tranches of a config were bought, for less than the 400 allowed
C38_Witness ==
    \E s \in DOMAIN trade_history :
        /\ Len(trade_history[s].entries) = 2
        /\ ConfigOf(s).pyramiding_count = 1
        /\ FracEq(TotalAmountOf(s), FracOfInt(400))
        /\ SumAmount(trade_history[s].entries) > 200
        /\ SumAmount(trade_history[s].entries) <= 400

\* the orders of a trace that the gateway reported as successful
Filled(trace) ==
    SelectSeq(trace, LAMBDA e : e.ev \in {"buy_order", "sell_order"} /\ e.res = "ok")
RowsMatchFilledOrders(trace) ==
    /\ Len(Rows(trace)) = Len(Filled(trace))
    /\ \A k \in 1..Len(Rows(trace)) :
          /\ Rows(trace)[k].qty = Filled(trace)[k].qty
          /\ Rows(trace)[k].res
                = (IF Filled(trace)[k].ev = "buy_order" THEN "BUY" ELSE "SELL")
          /\ Rows(trace)[k].price \in Prices

\* C39: the trade log gains exactly one row per order that the gateway
\* reported as successful, a BUY or SELL row with the price and quantity of
\* the order; rejected orders, skipped orders and evaluations without a
\* trigger add no row.
C39_OneRowPerFilledOrder == RowsMatchFilledOrders(events)

\* a sell was filled and the body wrote no row
C39_FilledSellWithoutRow ==
    /\ HappenedWith(events, "sell_order", {"ok"})
    /\ Rows(events) = <<>>
    /\ Happened(events, "error_alert")

\* every row belongs to a filled order, and a filled order lacks its row
\* only when it is a sell that was answered by an error alert
C39_RowMissingOnlyOnFailedLookup ==
    \/ RowsMatchFilledOrders(events)
    \/ C39_FilledSellWithoutRow

\* no two stocks of the file share a code, and no two share an id
NoDuplicateStocks(data) ==
    \A i, j \in 1..Len(data) :
        i # j => data[i].code # data[j].code /\ data[i].id # data[j].id
\* a create or an update whose code another stock of the file has
WouldDuplicate(data, request) ==
    /\ request.fn \in {"create_stock", "update_stock"}
    /\ \E j \in 1..Len(data) :
          /\ data[j].code = Val(request.body).code
          /\ request.fn = "update_stock" =>
                /\ data[j].id # Val(request.id)
                /\ \E i \in 1..Len(data) : data[i].id = Val(request.id)

\* C40: after any sequence of stock-store operations (create, update,
\* delete) no two stored stocks share a code and no two share an id; a
\* create or update that would duplicate a code is rejected with status 400
\* and leaves the store unchanged.
C40_StockCodesAndIdsUnique ==
    [][/\ NoDuplicateStocks(stocks_file')
       /\ WouldDuplicate(stocks_file, probe') =>
             probe'.out = 400 /\ stocks_file' = stocks_file]_vars

\* an update to the code of another stock was rejected; the store holds
\* three stocks, one of them under an id handed out after a delete
C40_Witness ==
    /\ probe.fn = "update_stock"
    /\ probe.out = 400
    /\ Len(stocks_file) = 3
    /\ \E i \in 1..Len(stocks_file) : stocks_file[i].id = MaxStockId
    /\ \E i \in 1..Len(stocks_file) :
          stocks_file[i].code = Val(probe.body).code
          /\ stocks_file[i].id # Val(probe.id)
====
